---- MODULE Spec2Model ----
(***************************************************************************)
(* Model of the open-addressing hash table of asaparov/core (src/map.h):   *)
(* hash_set<T> (keys, capacity, size) and hash_map<K, V> (table + values), *)
(* with linear probing, backward-shift deletion and doubling resize.       *)
(* Keys are small unsigned integers, 0 being the empty sentinel of         *)
(* hasher<unsigned int>; slot buffers are functions over 0..capacity-1.    *)
(***************************************************************************)
EXTENDS Integers, Sequences, FiniteSets, TLC

\* ------------------------------------------------------------- bounds
\* keys are 1..MaxKey (0 is the empty sentinel)
MaxKey == 3
\* map values are 1..MaxVal
MaxVal == 2
\* a table is constructed with a capacity in 1..MaxInitCapacity
MaxInitCapacity == 3
\* add_all / put_all take at most MaxCount elements
MaxCount == 1
\* the allocator may fail the n-th allocation of a call, n in 1..MaxFail
MaxFail == 4
\* the largest value a hasher returns
MaxHash == 7

\* ------------------------------------------------------------- program constants
\* RESIZE_THRESHOLD is the token sequence "1 / 2": x * RESIZE_THRESHOLD is (x * 1) / 2
RESIZE_THRESHOLD_NUM == 1
RESIZE_THRESHOLD_DEN == 2
RESIZE_FACTOR == 2
EMPTY == 0
UNINIT == 0
Keys == 1..MaxKey
Vals == 1..MaxVal
\* hash values a hasher may return; every probe reduces them modulo the capacity
HashValues == {0, 1, MaxHash}

\* capacity and size are unsigned int; every value the bounded model computes
\* lies far below 2^32, so the arithmetic is written without the wrap-around
VARIABLES kind, hasher, keys, capacity, size, values, shadow, last, pc

vars == <<kind, hasher, keys, capacity, size, values, shadow, last, pc>>

\* array: an array<T> (array.h), the record of its fields data, length and
\* capacity. operands: the arguments and results of a call of one of the
\* functions on plain arrays. A run is about one kind of object: the
\* variables of the others stay as they are.
VARIABLES array, operands

arrays == <<array, operands>>

NoArrays == array = <<>> /\ operands = <<>>

\* ------------------------------------------------------------- capability traits
is_empty(key) == key = EMPTY

hash(key) == hasher[key]

\* calloc'd key buffer: every slot is the sentinel
set_all_empty(length) == [i \in 0..(length - 1) |-> EMPTY]

\* mutant: the interval test without its wrap-around branch
index_between_noncyclic(probe, start, end) ==
    probe > start /\ probe <= end

index_between(probe, start, end) ==
    IF end >= start
    THEN probe > start /\ probe <= end
    ELSE probe <= end \/ probe > start

\* ------------------------------------------------------------- probing
\* A probe loop that has visited all `cap` slots without meeting its exit
\* condition never exits in the code; the operators then return `cap`, which
\* is no slot index.

\* next_empty: the first empty slot at or after the home bucket
RECURSIVE ProbeEmpty(_, _, _, _)
ProbeEmpty(ks, cap, index, steps) ==
    IF steps >= cap THEN cap
    ELSE IF is_empty(ks[index]) THEN index
    ELSE ProbeEmpty(ks, cap, (index + 1) % cap, steps + 1)

next_empty(ks, cap, element) == ProbeEmpty(ks, cap, hash(element) % cap, 0)

\* the loop of contains and index_of(element, contains): equality is tested
\* before emptiness
RECURSIVE ProbeFind(_, _, _, _, _)
ProbeFind(ks, cap, element, index, steps) ==
    IF steps >= cap THEN [index |-> cap, contains |-> FALSE]
    ELSE IF ks[index] = element THEN [index |-> index, contains |-> TRUE]
    ELSE IF is_empty(ks[index]) THEN [index |-> index, contains |-> FALSE]
    ELSE ProbeFind(ks, cap, element, (index + 1) % cap, steps + 1)

index_of(ks, cap, element) == ProbeFind(ks, cap, element, hash(element) % cap, 0)

contains(ks, cap, element) == index_of(ks, cap, element).contains

\* mutant: the insertion probe without its equality test
RECURSIVE ProbeInsertNoEquality(_, _, _, _, _)
ProbeInsertNoEquality(ks, cap, element, index, steps) ==
    IF steps >= cap THEN [index |-> cap, found |-> FALSE]
    ELSE IF is_empty(ks[index]) THEN [index |-> index, found |-> FALSE]
    ELSE ProbeInsertNoEquality(ks, cap, element, (index + 1) % cap, steps + 1)

\* the loop of index_to_insert and of remove: emptiness is tested before
\* equality; `found` tells that the loop left by the equality test
RECURSIVE ProbeInsert(_, _, _, _, _)
ProbeInsert(ks, cap, element, index, steps) ==
    IF steps >= cap THEN [index |-> cap, found |-> FALSE]
    ELSE IF is_empty(ks[index]) THEN [index |-> index, found |-> FALSE]
    ELSE IF ks[index] = element THEN [index |-> index, found |-> TRUE]
    ELSE ProbeInsert(ks, cap, element, (index + 1) % cap, steps + 1)

\* ------------------------------------------------------------- hash_set
\* A table in the middle of a call is a record
\*   [keys, capacity, size, values, ret, nomem, allocs, freed]
\* ret: the value the call returns (true until a step of it fails); nomem: an
\* allocation of the call returned NULL; allocs: allocations requested so far
\* by the call; freed: the buffers the call has passed to free(), in order.

\* mutant: size is incremented also when the probe stops at the key itself
index_to_insert_counts_always(c, element) ==
    LET p == ProbeInsert(c.keys, c.capacity, element, hash(element) % c.capacity, 0)
    IN  [index |-> p.index, size |-> c.size + 1]

\* index_to_insert counts the element in when it stops at an empty slot
index_to_insert(c, element) ==
    LET p == ProbeInsert(c.keys, c.capacity, element, hash(element) % c.capacity, 0)
    IN  [index |-> p.index,
         size  |-> IF p.index < c.capacity /\ ~p.found THEN c.size + 1 ELSE c.size]

place(ks, element, index) ==
    IF index \in DOMAIN ks THEN [ks EXCEPT ![index] = element] ELSE ks

\* mutant: insert placing the element like insert_unique, at the next empty
\* bucket, without looking for the element
insert_at_next_empty(c, element) ==
    [c EXCEPT !.keys = place(c.keys, element, next_empty(c.keys, c.capacity, element)),
              !.size = @ + 1]

insert(c, element) ==
    LET r == index_to_insert(c, element)
    IN  [c EXCEPT !.keys = place(c.keys, element, r.index), !.size = r.size]

\* mutant: resize copies every key to the bucket index it had (a raw copy)
RECURSIVE RehashKeysRawCopy(_, _, _, _, _)
RehashKeysRawCopy(old_keys, old_capacity, i, new_keys, new_capacity) ==
    IF i >= old_capacity THEN new_keys
    ELSE RehashKeysRawCopy(old_keys, old_capacity, i + 1,
                           place(new_keys, old_keys[i], i), new_capacity)

\* the relocation loop of hash_set::resize: every occupied old slot, in index
\* order, is moved to next_empty of the new buffer
RECURSIVE RehashKeys(_, _, _, _, _)
RehashKeys(old_keys, old_capacity, i, new_keys, new_capacity) ==
    IF i >= old_capacity THEN new_keys
    ELSE IF ~is_empty(old_keys[i])
    THEN RehashKeys(old_keys, old_capacity, i + 1,
                    place(new_keys, old_keys[i], next_empty(new_keys, new_capacity, old_keys[i])),
                    new_capacity)
    ELSE RehashKeys(old_keys, old_capacity, i + 1, new_keys, new_capacity)

\* hash_set::resize; `fail` is the number of the allocation of this call that
\* returns NULL (0: none does)
hash_set_resize(c, new_capacity, fail) ==
    IF c.allocs + 1 = fail
    THEN [c EXCEPT !.allocs = @ + 1, !.nomem = TRUE, !.ret = FALSE]
    ELSE [c EXCEPT !.allocs = @ + 1,
                   !.keys = RehashKeys(c.keys, c.capacity, 0, set_all_empty(new_capacity), new_capacity),
                   !.capacity = new_capacity,
                   !.freed = Append(@, "old_keys")]

\* mutant: the loop condition of check_size with > for >=
NeedsResizeStrict(new_size, cap) ==
    new_size > (cap * RESIZE_THRESHOLD_NUM) \div RESIZE_THRESHOLD_DEN

NeedsResize(new_size, cap) ==
    new_size >= (cap * RESIZE_THRESHOLD_NUM) \div RESIZE_THRESHOLD_DEN

\* mutant: check_size that reports success when resize failed
RECURSIVE hash_set_check_size_ignores_failure(_, _, _)
hash_set_check_size_ignores_failure(c, new_size, fail) ==
    IF NeedsResize(new_size, c.capacity)
    THEN LET r == hash_set_resize(c, RESIZE_FACTOR * c.capacity, fail)
         IN  IF ~r.ret THEN [r EXCEPT !.ret = TRUE]
             ELSE hash_set_check_size_ignores_failure(r, new_size, fail)
    ELSE c

RECURSIVE hash_set_check_size(_, _, _)
hash_set_check_size(c, new_size, fail) ==
    IF NeedsResize(new_size, c.capacity)
    THEN LET r == hash_set_resize(c, RESIZE_FACTOR * c.capacity, fail)
         IN  IF ~r.ret THEN r ELSE hash_set_check_size(r, new_size, fail)
    ELSE c

\* mutant: the loop of remove_at moving every key of the cluster one hole back
RECURSIVE BackwardShiftEvery(_, _, _, _, _)
BackwardShiftEvery(ks, cap, lastIdx, search, steps) ==
    IF steps >= cap \/ is_empty(ks[search]) THEN [keys |-> ks, last |-> lastIdx]
    ELSE BackwardShiftEvery([ks EXCEPT ![lastIdx] = ks[search]], cap, search,
                            (search + 1) % cap, steps + 1)

\* mutant: the loop of remove_at with its interval test inverted
RECURSIVE BackwardShiftInverted(_, _, _, _, _)
BackwardShiftInverted(ks, cap, lastIdx, search, steps) ==
    IF steps >= cap \/ is_empty(ks[search]) THEN [keys |-> ks, last |-> lastIdx]
    ELSE LET search_hash == hash(ks[search]) % cap
         IN  IF index_between(search_hash, lastIdx, search)
             THEN BackwardShiftInverted([ks EXCEPT ![lastIdx] = ks[search]], cap, search,
                                        (search + 1) % cap, steps + 1)
             ELSE BackwardShiftInverted(ks, cap, lastIdx, (search + 1) % cap, steps + 1)

\* the loop of remove_at: returns the keys after the moves and the slot that
\* is to be emptied
RECURSIVE BackwardShift(_, _, _, _, _)
BackwardShift(ks, cap, lastIdx, search, steps) ==
    IF steps >= cap \/ is_empty(ks[search]) THEN [keys |-> ks, last |-> lastIdx]
    ELSE LET search_hash == hash(ks[search]) % cap
         IN  IF ~index_between(search_hash, lastIdx, search)
             THEN BackwardShift([ks EXCEPT ![lastIdx] = ks[search]], cap, search,
                                (search + 1) % cap, steps + 1)
             ELSE BackwardShift(ks, cap, lastIdx, (search + 1) % cap, steps + 1)

hash_set_remove_at(c, index) ==
    LET r == BackwardShift(c.keys, c.capacity, index, (index + 1) % c.capacity, 0)
    IN  [c EXCEPT !.keys = [r.keys EXCEPT ![r.last] = EMPTY], !.size = c.size - 1]

\* mutant: remove probing like contains, equality tested before emptiness
hash_set_remove_equality_first(c, element) ==
    LET p == index_of(c.keys, c.capacity, element)
    IN  IF p.contains THEN hash_set_remove_at(c, p.index) ELSE [c EXCEPT !.ret = FALSE]

hash_set_remove(c, element) ==
    LET p == ProbeInsert(c.keys, c.capacity, element, hash(element) % c.capacity, 0)
    IN  IF p.found THEN hash_set_remove_at(c, p.index) ELSE [c EXCEPT !.ret = FALSE]

hash_set_clear(c) == [c EXCEPT !.keys = set_all_empty(c.capacity), !.size = 0]

\* mutant: add without its call of check_size
hash_set_add_unchecked(c, element, fail) == insert(c, element)

hash_set_add(c, element, fail) ==
    LET r == hash_set_check_size(c, c.size, fail)
    IN  IF ~r.ret THEN r ELSE insert(r, element)

RECURSIVE InsertAll(_, _, _)
InsertAll(c, elements, i) ==
    IF i > Len(elements) THEN c
    ELSE InsertAll(insert(c, elements[i]), elements, i + 1)

\* mutant: add_all that goes on to insert when check_size failed
hash_set_add_all_unchecked(c, elements, fail) ==
    InsertAll(hash_set_check_size(c, c.size + Len(elements), fail), elements, 1)

\* add_all(const T* elements, unsigned int count)
hash_set_add_all(c, elements, fail) ==
    LET r == hash_set_check_size(c, c.size + Len(elements), fail)
    IN  IF ~r.ret THEN r ELSE InsertAll(r, elements, 1)

\* ------------------------------------------------------------- hash_map
\* malloc'd value buffer: the content of its cells is indeterminate until a
\* value is written; UNINIT stands for that content and is no value of V
malloc_values(length) == [i \in 0..(length - 1) |-> UNINIT]

hash_map_insert(c, key, value) ==
    LET r == index_to_insert(c, key)
    IN  [c EXCEPT !.keys = place(c.keys, key, r.index),
                  !.values = place(c.values, value, r.index),
                  !.size = r.size]

\* mutant: the loop of hash_map::resize leaves each value at the index it had
RECURSIVE RehashPairsValuesInPlace(_, _, _, _, _, _, _)
RehashPairsValuesInPlace(old_keys, old_values, old_capacity, i, new_keys, new_values, new_capacity) ==
    IF i >= old_capacity THEN [keys |-> new_keys, values |-> new_values]
    ELSE IF ~is_empty(old_keys[i])
    THEN LET new_bucket == next_empty(new_keys, new_capacity, old_keys[i])
         IN  RehashPairsValuesInPlace(old_keys, old_values, old_capacity, i + 1,
                         place(new_keys, old_keys[i], new_bucket),
                         place(new_values, old_values[i], i),
                         new_capacity)
    ELSE RehashPairsValuesInPlace(old_keys, old_values, old_capacity, i + 1, new_keys, new_values, new_capacity)

\* the relocation loop of hash_map::resize: a value goes to the bucket that
\* next_empty chose for its key
RECURSIVE RehashPairs(_, _, _, _, _, _, _)
RehashPairs(old_keys, old_values, old_capacity, i, new_keys, new_values, new_capacity) ==
    IF i >= old_capacity THEN [keys |-> new_keys, values |-> new_values]
    ELSE IF ~is_empty(old_keys[i])
    THEN LET new_bucket == next_empty(new_keys, new_capacity, old_keys[i])
         IN  RehashPairs(old_keys, old_values, old_capacity, i + 1,
                         place(new_keys, old_keys[i], new_bucket),
                         place(new_values, old_values[i], new_bucket),
                         new_capacity)
    ELSE RehashPairs(old_keys, old_values, old_capacity, i + 1, new_keys, new_values, new_capacity)

\* mutant: hash_map::resize that does not free the new key buffer when the
\* value allocation fails
hash_map_resize_leak(c, new_capacity, fail) ==
    IF c.allocs + 1 = fail
    THEN [c EXCEPT !.allocs = @ + 1, !.nomem = TRUE, !.ret = FALSE]
    ELSE IF c.allocs + 2 = fail
    THEN [c EXCEPT !.allocs = @ + 2, !.nomem = TRUE, !.ret = FALSE]
    ELSE LET r == RehashPairs(c.keys, c.values, c.capacity, 0,
                              set_all_empty(new_capacity), malloc_values(new_capacity),
                              new_capacity)
         IN  [c EXCEPT !.allocs = @ + 2,
                       !.keys = r.keys,
                       !.values = r.values,
                       !.capacity = new_capacity,
                       !.freed = @ \o <<"old_keys", "old_values">>]

\* hash_map::resize: the key buffer is allocated first, then the value buffer
hash_map_resize(c, new_capacity, fail) ==
    IF c.allocs + 1 = fail
    THEN [c EXCEPT !.allocs = @ + 1, !.nomem = TRUE, !.ret = FALSE]
    ELSE IF c.allocs + 2 = fail
    THEN [c EXCEPT !.allocs = @ + 2, !.nomem = TRUE, !.ret = FALSE, !.freed = Append(@, "new_keys")]
    ELSE LET r == RehashPairs(c.keys, c.values, c.capacity, 0,
                              set_all_empty(new_capacity), malloc_values(new_capacity),
                              new_capacity)
         IN  [c EXCEPT !.allocs = @ + 2,
                       !.keys = r.keys,
                       !.values = r.values,
                       !.capacity = new_capacity,
                       !.freed = @ \o <<"old_keys", "old_values">>]

\* mutant: check_size that makes room for one element more than it is asked
RECURSIVE hash_map_check_size_one_more(_, _, _)
hash_map_check_size_one_more(c, new_size, fail) ==
    IF NeedsResize(new_size + 1, c.capacity)
    THEN LET r == hash_map_resize(c, RESIZE_FACTOR * c.capacity, fail)
         IN  IF ~r.ret THEN r ELSE hash_map_check_size_one_more(r, new_size, fail)
    ELSE c

RECURSIVE hash_map_check_size(_, _, _)
hash_map_check_size(c, new_size, fail) ==
    IF NeedsResize(new_size, c.capacity)
    THEN LET r == hash_map_resize(c, RESIZE_FACTOR * c.capacity, fail)
         IN  IF ~r.ret THEN r ELSE hash_map_check_size(r, new_size, fail)
    ELSE c

hash_map_put(c, key, value, fail) ==
    LET r == hash_map_check_size(c, c.size, fail)
    IN  IF ~r.ret THEN r ELSE hash_map_insert(r, key, value)

RECURSIVE InsertAllPairs(_, _, _)
InsertAllPairs(c, elements, i) ==
    IF i > Len(elements) THEN c
    ELSE InsertAllPairs(hash_map_insert(c, elements[i][1], elements[i][2]), elements, i + 1)

\* put_all(const hash_map& elements); `elements` lists the occupied buckets of
\* the argument in bucket order, so elements.table.size is its length
hash_map_put_all(c, elements, fail) ==
    LET r == hash_map_check_size(c, c.size + Len(elements), fail)
    IN  IF ~r.ret THEN r ELSE InsertAllPairs(r, elements, 1)

\* mutant: the loop of remove_at<V> moves the keys and leaves the values
RECURSIVE BackwardShiftKeysOnly(_, _, _, _, _, _)
BackwardShiftKeysOnly(ks, vs, cap, lastIdx, search, steps) ==
    IF steps >= cap \/ is_empty(ks[search]) THEN [keys |-> ks, values |-> vs, last |-> lastIdx]
    ELSE LET search_hash == hash(ks[search]) % cap
         IN  IF ~index_between(search_hash, lastIdx, search)
             THEN BackwardShiftKeysOnly([ks EXCEPT ![lastIdx] = ks[search]], vs,
                                        cap, search, (search + 1) % cap, steps + 1)
             ELSE BackwardShiftKeysOnly(ks, vs, cap, lastIdx, (search + 1) % cap, steps + 1)

\* the loop of remove_at<V>: values move in lockstep with keys
RECURSIVE BackwardShiftValues(_, _, _, _, _, _)
BackwardShiftValues(ks, vs, cap, lastIdx, search, steps) ==
    IF steps >= cap \/ is_empty(ks[search]) THEN [keys |-> ks, values |-> vs, last |-> lastIdx]
    ELSE LET search_hash == hash(ks[search]) % cap
         IN  IF ~index_between(search_hash, lastIdx, search)
             THEN BackwardShiftValues([ks EXCEPT ![lastIdx] = ks[search]],
                                      [vs EXCEPT ![lastIdx] = vs[search]],
                                      cap, search, (search + 1) % cap, steps + 1)
             ELSE BackwardShiftValues(ks, vs, cap, lastIdx, (search + 1) % cap, steps + 1)

hash_map_remove_at(c, index) ==
    LET r == BackwardShiftValues(c.keys, c.values, c.capacity, index, (index + 1) % c.capacity, 0)
    IN  [c EXCEPT !.keys = [r.keys EXCEPT ![r.last] = EMPTY],
                  !.values = r.values,
                  !.size = c.size - 1]

\* mutant: remove<V> without the early return at an empty slot
hash_map_remove_unchecked(c, key) ==
    LET p == ProbeInsert(c.keys, c.capacity, key, hash(key) % c.capacity, 0)
    IN  hash_map_remove_at(c, p.index % c.capacity)

hash_map_remove(c, key) ==
    LET p == ProbeInsert(c.keys, c.capacity, key, hash(key) % c.capacity, 0)
    IN  IF p.found THEN hash_map_remove_at(c, p.index) ELSE [c EXCEPT !.ret = FALSE]

\* hash_map::get(key, contains): the value read and the presence flag
hash_map_get(ks, vs, cap, key) ==
    LET r == index_of(ks, cap, key)
    IN  [value |-> IF r.index \in DOMAIN vs THEN vs[r.index] ELSE EMPTY,
         contains |-> r.contains]

\* ------------------------------------------------------------- state machine
\* kind: "set" for a hash_set<unsigned int>, "map" for a hash_map<unsigned int, V>
\*       driven by arbitrary calls, "test" for the map of hash_map_test
\* hasher: the hash function of the key type (fixed for a run)
\* shadow: for every key the value of its latest successful put (1 for add), or
\*         0 when the key was never inserted or was removed since
\* last: the latest call: op, its name; hit, its key argument was stored in
\*       some bucket when the call began; ret, its return value; nomem, allocs
\*       and freed as in the call record; count, the number of elements of a
\*       bulk call
\* pc: the number of statements of hash_map_test executed so far
NoCall == [op |-> "init", hit |-> FALSE, ret |-> TRUE, nomem |-> FALSE,
           allocs |-> 0, freed |-> <<>>, count |-> 0]

Call == [keys |-> keys, capacity |-> capacity, size |-> size, values |-> values,
         ret |-> TRUE, nomem |-> FALSE, allocs |-> 0, freed |-> <<>>]

Stored(ks, element) == \E i \in DOMAIN ks : ~is_empty(ks[i]) /\ ks[i] = element

Commit(c, op, hit, count) ==
    /\ keys' = c.keys
    /\ capacity' = c.capacity
    /\ size' = c.size
    /\ values' = c.values
    /\ last' = [op |-> op, hit |-> hit, ret |-> c.ret, nomem |-> c.nomem,
                allocs |-> c.allocs, freed |-> c.freed, count |-> count]
    /\ UNCHANGED <<kind, hasher, arrays>>

\* Keys are used only through ==, the sentinel test and the hasher, so every
\* hasher is a renaming of the keys away from one that is monotone in the key
HashFunctions ==
    {h \in [Keys \cup {EMPTY} -> HashValues] :
        h[EMPTY] = 0 /\ \A j, k \in Keys : j <= k => h[j] <= h[k]}

\* hash_map_test: the keys it uses, the capacity it constructs the map with,
\* and its calls in order (values are numbered: 1 "negative seven", 2 "four",
\* 3 "new four", 4 "five", 5 "twelve", 6 "seven", 7 "thirteen")
TestKeys == {-7, 4, 5, 7, 12, 13}
TestCapacity == 4
TestScript ==
    << <<"put", -7, 1>>, <<"put", 4, 2>>, <<"put", 4, 3>>, <<"put", 5, 4>>,
       <<"put", 12, 5>>, <<"put", 7, 6>>, <<"put", 13, 7>>, <<"remove", 4, 0>> >>
\* hashers the test is run with (hasher<int> is XXH64 of the key's bytes)
TestHashers ==
    {[k \in TestKeys \cup {EMPTY} |-> (k + 16) % m] : m \in {1, 4, 16}}

InitTable ==
    /\ kind \in {"set", "map"}
    /\ hasher \in HashFunctions
    /\ capacity \in 1..MaxInitCapacity
    /\ values = IF kind = "set" THEN <<>> ELSE malloc_values(capacity)
    /\ shadow = [k \in Keys |-> 0]

InitTest ==
    /\ kind = "test"
    /\ hasher \in TestHashers
    /\ capacity = TestCapacity
    /\ values = malloc_values(capacity)
    /\ shadow = [k \in TestKeys |-> 0]

Init ==
    /\ (InitTable \/ InitTest)
    /\ keys = set_all_empty(capacity)
    /\ size = 0
    /\ last = NoCall
    /\ pc = 0
    /\ NoArrays

Add(element, fail) ==
    /\ kind = "set"
    /\ LET c == hash_set_add(Call, element, fail)
       IN  /\ Commit(c, "add", Stored(keys, element), 0)
           /\ shadow' = IF c.ret THEN [shadow EXCEPT ![element] = 1] ELSE shadow
    /\ UNCHANGED pc

RECURSIVE ShadowAll(_, _, _)
ShadowAll(sh, elements, i) ==
    IF i > Len(elements) THEN sh
    ELSE ShadowAll([sh EXCEPT ![elements[i]] = 1], elements, i + 1)

AddAll(elements, fail) ==
    /\ kind = "set"
    /\ LET c == hash_set_add_all(Call, elements, fail)
       IN  /\ Commit(c, "add_all", FALSE, Len(elements))
           /\ shadow' = IF c.ret THEN ShadowAll(shadow, elements, 1) ELSE shadow
    /\ UNCHANGED pc

Remove(element) ==
    /\ kind = "set"
    /\ Commit(hash_set_remove(Call, element), "remove", Stored(keys, element), 0)
    /\ shadow' = IF element \in DOMAIN shadow THEN [shadow EXCEPT ![element] = 0] ELSE shadow
    /\ UNCHANGED pc

Clear ==
    /\ kind = "set"
    /\ Commit(hash_set_clear(Call), "clear", FALSE, 0)
    /\ shadow' = [k \in DOMAIN shadow |-> 0]
    /\ UNCHANGED pc

Put(key, value, fail) ==
    /\ kind = "map"
    /\ LET c == hash_map_put(Call, key, value, fail)
       IN  /\ Commit(c, "put", Stored(keys, key), 0)
           /\ shadow' = IF c.ret THEN [shadow EXCEPT ![key] = value] ELSE shadow
    /\ UNCHANGED pc

RECURSIVE ShadowAllPairs(_, _, _)
ShadowAllPairs(sh, elements, i) ==
    IF i > Len(elements) THEN sh
    ELSE ShadowAllPairs([sh EXCEPT ![elements[i][1]] = elements[i][2]], elements, i + 1)

PutAll(elements, fail) ==
    /\ kind = "map"
    /\ LET c == hash_map_put_all(Call, elements, fail)
       IN  /\ Commit(c, "put_all", FALSE, Len(elements))
           /\ shadow' = IF c.ret THEN ShadowAllPairs(shadow, elements, 1) ELSE shadow
    /\ UNCHANGED pc

MapRemove(key) ==
    /\ kind = "map"
    /\ Commit(hash_map_remove(Call, key), "remove", Stored(keys, key), 0)
    /\ shadow' = IF key \in DOMAIN shadow THEN [shadow EXCEPT ![key] = 0] ELSE shadow
    /\ UNCHANGED pc

MapClear ==
    /\ kind = "map"
    /\ Commit(hash_set_clear(Call), "clear", FALSE, 0)
    /\ shadow' = [k \in DOMAIN shadow |-> 0]
    /\ UNCHANGED pc

\* the next statement of hash_map_test, a put (its allocations succeed)
TestPut ==
    /\ kind = "test"
    /\ pc < Len(TestScript)
    /\ TestScript[pc + 1][1] = "put"
    /\ LET key == TestScript[pc + 1][2]
           value == TestScript[pc + 1][3]
       IN  /\ Commit(hash_map_put(Call, key, value, 0), "put", Stored(keys, key), 0)
           /\ shadow' = [shadow EXCEPT ![key] = value]
    /\ pc' = pc + 1

\* the next statement of hash_map_test, a remove
TestRemove ==
    /\ kind = "test"
    /\ pc < Len(TestScript)
    /\ TestScript[pc + 1][1] = "remove"
    /\ LET key == TestScript[pc + 1][2]
       IN  /\ Commit(hash_map_remove(Call, key), "remove", Stored(keys, key), 0)
           /\ shadow' = [shadow EXCEPT ![key] = 0]
    /\ pc' = pc + 1

\* argument arrays of add_all: up to MaxCount keys, repetitions allowed
KeyArrays == UNION {[1..n -> Keys] : n \in 0..MaxCount}

\* argument maps of put_all: up to MaxCount occupied buckets with distinct keys
PairArrays ==
    {e \in UNION {[1..n -> Keys \X Vals] : n \in 0..MaxCount} :
        \A i, j \in DOMAIN e : e[i][1] = e[j][1] => i = j}

\* allocator behaviours of a call that checks `new_size`: the number of the
\* allocation that fails, 0 for none; a call that needs no resize allocates
\* nothing
Fails(new_size) == IF NeedsResize(new_size, capacity) THEN 0..MaxFail ELSE {0}

Next ==
    \/ \E element \in Keys : \E fail \in Fails(size) : Add(element, fail)
    \/ \E elements \in KeyArrays : \E fail \in Fails(size + Len(elements)) : AddAll(elements, fail)
    \/ \E element \in Keys \cup {EMPTY} : Remove(element)
    \/ Clear
    \/ \E key \in Keys, value \in Vals : \E fail \in Fails(size) : Put(key, value, fail)
    \/ \E elements \in PairArrays : \E fail \in Fails(size + Len(elements)) : PutAll(elements, fail)
    \/ \E key \in Keys \cup {EMPTY} : MapRemove(key)
    \/ MapClear
    \/ TestPut
    \/ TestRemove

Spec == Init /\ [][Next]_vars

\* ------------------------------------------------------------- views of a state
IsMap == kind \in {"map", "test"}

KeySet == DOMAIN shadow

Live == {k \in KeySet : shadow[k] # 0}

Occupied(ks) == {i \in DOMAIN ks : ~is_empty(ks[i])}

Home(key, cap) == hash(key) % cap

\* the buckets of the cyclic forward path from `from` up to `to`, `to` excluded
PathBefore(from, to, cap) == {(from + d) % cap : d \in 0..(((to - from + cap) % cap) - 1)}

\* some occupied bucket holds a key that is not in its home bucket
Displaced(ks, cap) == \E p \in Occupied(ks) : Home(ks[p], cap) # p

Reachable(ks, cap) ==
    \A p \in Occupied(ks) : \A q \in PathBefore(Home(ks[p], cap), p, cap) : ~is_empty(ks[q])

\* ------------------------------------------------------------- C1
\* C1: hash_set behaves as a mathematical set: in every state of a set,
\* contains(k) is true exactly for the keys added (by a call that returned
\* true) and not removed since; so after each remove every other live key is
\* still found and the removed key is not.
C1_SetRefinement ==
    kind = "set" => \A k \in KeySet : contains(keys, capacity, k) <=> shadow[k] # 0

\* a remove has just shifted the cluster of a set that still holds two keys,
\* one of them away from its home bucket
C1_Witness ==
    /\ kind = "set"
    /\ last.op = "remove" /\ last.ret
    /\ Cardinality(Live) >= 2
    /\ Displaced(keys, capacity)

\* ------------------------------------------------------------- C2
\* C2: reachability invariant: for every occupied slot p holding key k, every
\* slot on the cyclic forward path from hash(k) mod capacity up to p (p
\* excluded) is occupied, in every state between public calls.
C2_Reachability == Reachable(keys, capacity)

\* a table that was resized and then shrunk by a remove holds a key whose
\* probe path wraps around the end of the buffer
C2_Witness ==
    /\ last.op = "remove" /\ last.ret
    /\ capacity > MaxInitCapacity
    /\ \E p \in Occupied(keys) : Home(keys[p], capacity) > p

StoredKeys(ks) == {k \in KeySet : Stored(ks, k)}

C6_RemoveAbsent ==
    [][(last'.op = "remove" /\ ~last'.hit) =>
          /\ ~last'.ret
          /\ UNCHANGED <<keys, capacity, size, values>>]_vars

\* a remove of an absent key has just returned false on a map that holds
\* colliding keys
C6_Witness ==
    /\ kind = "map"
    /\ last.op = "remove" /\ ~last.hit /\ ~last.ret
    /\ size >= 2
    /\ Displaced(keys, capacity)

\* ------------------------------------------------------------- C7
\* the free() calls of a single add / put whose resize ran out of memory: the
\* old buffers are never freed; the new key buffer is freed once when it was
\* obtained, that is when the failing allocation is the second one (values)
FreesOfFailedResize(l) ==
    \/ l.allocs = 1 /\ l.freed = <<>>
    \/ IsMap /\ l.allocs = 2 /\ l.freed = <<"new_keys">>

\* C7: if an allocation fails during the resize triggered by add or put, the
\* call returns false, and keys, values, capacity and size are as before the
\* call (so the key is not inserted); the old buffers are not released and a
\* new key buffer obtained before the value allocation failed is released
\* exactly once.
C7_ResizeFailure ==
    [][(last'.op \in {"add", "put"} /\ last'.nomem) =>
          /\ ~last'.ret
          /\ UNCHANGED <<keys, values, capacity, size>>
          /\ FreesOfFailedResize(last')]_vars

\* the value allocation of a put has just failed on a non-empty map
C7_Witness ==
    /\ kind = "map"
    /\ last.op = "put" /\ last.nomem
    /\ last.allocs = 2
    /\ size >= 1

\* ------------------------------------------------------------- C8
\* C8 as stated: add(k) / put(k, v) of a key already present returns true and
\* does not change size, whatever the allocator does.
C8_PresentKeyAlwaysSucceeds ==
    [][(last'.op \in {"add", "put"} /\ last'.hit) =>
          /\ last'.ret
          /\ size' = size]_vars

\* C8 amended: add(k) / put(k, v) of a key already present never changes
\* size; it returns true unless an allocation of the resize that precedes the
\* probe fails, and then it returns false.
C8_PresentKey ==
    [][(last'.op \in {"add", "put"} /\ last'.hit) =>
          /\ size' = size
          /\ last'.ret <=> ~last'.nomem]_vars

\* an add / put of a present key has just returned false for lack of memory
C8_Witness ==
    /\ last.op \in {"add", "put"}
    /\ last.hit
    /\ last.nomem /\ ~last.ret

\* ------------------------------------------------------------- C9
RECURSIVE IsRepeatedDoubling(_, _)
IsRepeatedDoubling(old, new) ==
    /\ new > old
    /\ \/ new = 2 * old
       \/ new % 2 = 0 /\ IsRepeatedDoubling(old, new \div 2)

C10_CheckedSizeBelowHalf ==
    [][(last'.op \in {"add", "put", "add_all", "put_all"} /\ last'.ret) =>
          size + last'.count < capacity' \div 2]_vars

\* an add_all of one element has just succeeded after doubling a set that
\* was constructed with capacity 3
C10_Witness ==
    /\ kind = "set"
    /\ last.op = "add_all" /\ last.ret
    /\ last.count >= 1
    /\ last.allocs >= 1
    /\ capacity % 3 = 0

\* ------------------------------------------------- construction from an array
\* hash_set(const T* set, unsigned int length) and
\* hash_map(const K* keys, const V* values, unsigned int length): the table is
\* given the capacity length * RESIZE_THRESHOLD_INVERSE + 1, which the macro
\* expands to length * 2 / 1 + 1, and every element is passed to insert
\* (no check_size); a failed allocation ends the process
MaxLength == 2

RESIZE_THRESHOLD_INVERSE_NUM == 2
RESIZE_THRESHOLD_INVERSE_DEN == 1

\* mutant: the constructor leaves room for one more bucket than elements
constructor_capacity_tight(length) == length + 1

constructor_capacity(length) ==
    ((length * RESIZE_THRESHOLD_INVERSE_NUM) \div RESIZE_THRESHOLD_INVERSE_DEN) + 1

EmptyTable(cap, vs) ==
    [keys |-> set_all_empty(cap), capacity |-> cap, size |-> 0, values |-> vs,
     ret |-> TRUE, nomem |-> FALSE, allocs |-> 0, freed |-> <<>>]

hash_set_from_array(elements) ==
    InsertAll(EmptyTable(constructor_capacity(Len(elements)), <<>>), elements, 1)

hash_map_from_arrays(elements) ==
    LET cap == constructor_capacity(Len(elements))
    IN  InsertAllPairs(EmptyTable(cap, malloc_values(cap)), elements, 1)

\* the arrays handed to the constructors: repetitions allowed
ConstructorKeys == UNION {[1..n -> Keys] : n \in 0..MaxLength}
ConstructorPairs == UNION {[1..n -> Keys \X Vals] : n \in 0..MaxLength}

InitFromArray ==
    /\ hasher \in HashFunctions
    /\ \/ /\ kind = "set"
          /\ \E elements \in ConstructorKeys :
                LET c == hash_set_from_array(elements)
                IN  /\ keys = c.keys /\ capacity = c.capacity /\ size = c.size
                    /\ values = c.values
                    /\ shadow = ShadowAll([k \in Keys |-> 0], elements, 1)
       \/ /\ kind = "map"
          /\ \E elements \in ConstructorPairs :
                LET c == hash_map_from_arrays(elements)
                IN  /\ keys = c.keys /\ capacity = c.capacity /\ size = c.size
                    /\ values = c.values
                    /\ shadow = ShadowAllPairs([k \in Keys |-> 0], elements, 1)
    /\ last = [NoCall EXCEPT !.op = "construct"]
    /\ pc = 0
    /\ NoArrays

\* every constructor, then any run of the operations
SpecConstructed == (Init \/ InitFromArray) /\ [][Next]_vars

\* C11 (as stated): the load factor size / capacity is below 0.5 in every
\* state reachable through the constructors, add, put, add_all, put_all,
\* remove and clear.
C11_LoadBelowHalf == 2 * size < capacity

\* C11 (amended): the load factor is at most 0.5 in every such state; an
\* insertion checks the size it starts from, so it may end with exactly half
\* of the buckets occupied.
C11_LoadAtMostHalf == 2 * size <= capacity

\* an insertion that doubled the capacity and filled half of the buckets
C11_Witness ==
    /\ last.op \in {"add", "put"} /\ last.ret /\ last.allocs >= 1
    /\ 2 * size = capacity /\ size >= 2

\* ------------------------------------------------- hash_map::resize on its own
\* resize is a public member: a caller may pass any new_capacity; the calls
\* modelled are those that leave an empty bucket (new_capacity > size), up to
\* MaxResizeCapacity buckets
MaxResizeCapacity == 5

MapResize(new_capacity, fail) ==
    /\ kind = "map"
    /\ Commit(hash_map_resize(Call, new_capacity, fail), "resize", FALSE, 0)
    /\ UNCHANGED <<shadow, pc>>

InitMap == Init /\ kind = "map"

NextResize ==
    \/ \E key \in Keys, value \in Vals : \E fail \in Fails(size) : Put(key, value, fail)
    \/ \E key \in Keys : MapRemove(key)
    \/ \E new_capacity \in (size + 1)..MaxResizeCapacity : \E fail \in 0..2 :
          MapResize(new_capacity, fail)

SpecResize == InitMap /\ [][NextResize]_vars

\* the buckets of `ks` that hold `key`
SlotsOf(ks, key) == {j \in DOMAIN ks : ks[j] = key}

\* C12: a successful hash_map::resize(new_capacity) with new_capacity > size
\* keeps every key in exactly one bucket j of the new buffer, the bucket an
\* insertion probe from hash(k) mod new_capacity stops at, with values[j] the
\* value the key had; size is unchanged, no other bucket is occupied and the
\* new table satisfies the reachability invariant.
C12_ResizePreservesMap ==
    [][(last'.op = "resize" /\ last'.ret) =>
         /\ size' = size
         /\ \A k \in Keys :
               IF Stored(keys, k)
               THEN /\ Cardinality(SlotsOf(keys', k)) = 1
                    /\ LET p == ProbeInsert(keys', capacity', k, hash(k) % capacity', 0)
                       IN  /\ p.found /\ p.index \in SlotsOf(keys', k)
                           /\ values'[p.index] = hash_map_get(keys, values, capacity, k).value
               ELSE SlotsOf(keys', k) = {}
         /\ Reachable(keys', capacity')]_vars

\* a resize to fewer buckets than before, of a map with two keys of different
\* values, that left a key away from its home bucket
C12_Witness ==
    /\ last.op = "resize" /\ last.ret /\ last.allocs = 2
    /\ size >= 2 /\ capacity < 2 * size
    /\ Displaced(keys, capacity)
    /\ \E j, k \in Live : shadow[j] # shadow[k]

\* ------------------------------------------------- write and read (io.h)
\* A stream is the sequence of items written to it.
\* write(hash_set): the size, then the key of every non-empty bucket in
\* bucket order
RECURSIVE WriteKeys(_, _, _, _)
WriteKeys(ks, cap, i, out) ==
    IF i >= cap THEN out
    ELSE IF is_empty(ks[i]) THEN WriteKeys(ks, cap, i + 1, out)
    ELSE WriteKeys(ks, cap, i + 1, Append(out, ks[i]))

write_hash_set(ks, cap, sz) == WriteKeys(ks, cap, 0, <<sz>>)

\* write(hash_map): the size, then key and value of every non-empty bucket
RECURSIVE WritePairs(_, _, _, _, _)
WritePairs(ks, vs, cap, i, out) ==
    IF i >= cap THEN out
    ELSE IF is_empty(ks[i]) THEN WritePairs(ks, vs, cap, i + 1, out)
    ELSE WritePairs(ks, vs, cap, i + 1, Append(Append(out, ks[i]), vs[i]))

write_hash_map(ks, vs, cap, sz) == WritePairs(ks, vs, cap, 0, <<sz>>)

\* RESIZE_THRESHOLD_INVERSE * (length == 0 ? 1 : length), which the macro
\* expands to 2 / 1 * (...)
read_capacity(length) ==
    (RESIZE_THRESHOLD_INVERSE_NUM \div RESIZE_THRESHOLD_INVERSE_DEN)
        * (IF length = 0 THEN 1 ELSE length)

\* read(hash_set) takes its key buffer from malloc and does not clear it: the
\* buckets hold whatever the memory held. Buffers with up to MaxDirty
\* buckets that are not all-zero stand for that content.
MaxDirty == 1

RECURSIVE DirtyBuffers(_, _)
DirtyBuffers(cap, n) ==
    IF n = 0 THEN {set_all_empty(cap)}
    ELSE LET cleaner == DirtyBuffers(cap, n - 1)
         IN  cleaner \cup {[b EXCEPT ![i] = k] : b \in cleaner, i \in 0..(cap - 1), k \in Keys}

malloc_keys(cap) == DirtyBuffers(cap, MaxDirty)

\* the loop of read(hash_set): set.add(key) for every key of the stream; the
\* value add returns is not looked at (its allocations are taken to succeed)
RECURSIVE ReadKeys(_, _, _)
ReadKeys(c, in, i) ==
    IF i > in[1] THEN c
    ELSE ReadKeys([hash_set_add(c, in[i + 1], 0) EXCEPT !.ret = TRUE], in, i + 1)

\* some probe of the loop of read(hash_set) never stops: every bucket it
\* visits holds another key
RECURSIVE ReadKeysHangs(_, _, _)
ReadKeysHangs(c, in, i) ==
    IF i > in[1] THEN FALSE
    ELSE LET r == hash_set_check_size(c, c.size, 0)
         IN  \/ index_to_insert(r, in[i + 1]).index >= r.capacity
             \/ ReadKeysHangs(insert(r, in[i + 1]), in, i + 1)

read_hash_set(in, buffer) ==
    ReadKeys([keys |-> buffer, capacity |-> read_capacity(in[1]), size |-> 0,
              values |-> <<>>, ret |-> TRUE, nomem |-> FALSE, allocs |-> 1,
              freed |-> <<>>], in, 1)

\* the loop of read(hash_map): get(key, contains, bucket), then the value is
\* read into values[bucket] and, for a new key, the key is stored and counted
RECURSIVE ReadPairs(_, _, _)
ReadPairs(c, in, i) ==
    IF i > in[1] THEN c
    ELSE LET key == in[2 * i]
             value == in[2 * i + 1]
             r == index_of(c.keys, c.capacity, key)
         IN  ReadPairs([c EXCEPT !.values = place(c.values, value, r.index),
                                 !.keys = IF r.contains THEN @ ELSE place(@, key, r.index),
                                 !.size = IF r.contains THEN @ ELSE @ + 1],
                       in, i + 1)

\* read(hash_map) with the default alloc_keys, calloc; the values are malloc'd
read_hash_map(in) ==
    LET cap == read_capacity(in[1])
    IN  ReadPairs([keys |-> set_all_empty(cap), capacity |-> cap, size |-> 0,
                   values |-> malloc_values(cap), ret |-> TRUE, nomem |-> FALSE,
                   allocs |-> 2, freed |-> <<>>], in, 1)

\* write(set, out) followed by read(fresh, in) on the same bytes; the fresh
\* table takes the place of the written one. The call returns only if every
\* probe of the loop stops.
ReloadSet(buffer) ==
    /\ kind = "set"
    /\ LET in == write_hash_set(keys, capacity, size)
       IN  /\ ~ReadKeysHangs([Call EXCEPT !.keys = buffer,
                                          !.capacity = read_capacity(in[1]),
                                          !.size = 0], in, 1)
           /\ Commit(read_hash_set(in, buffer), "read", buffer # set_all_empty(read_capacity(in[1])), 0)
    /\ pc' = 1
    /\ UNCHANGED shadow

ReloadMap ==
    /\ kind = "map"
    /\ Commit(read_hash_map(write_hash_map(keys, values, capacity, size)), "read", FALSE, 0)
    /\ pc' = 1
    /\ UNCHANGED shadow

\* a table is built by add / put / remove (allocations succeed), then it is
\* written and read back, which ends the run
InitSerialize == Init /\ kind \in {"set", "map"}

NextSerialize ==
    \/ pc = 0 /\ \E element \in Keys : Add(element, 0)
    \/ pc = 0 /\ \E element \in Keys : Remove(element)
    \/ pc = 0 /\ \E key \in Keys, value \in Vals : Put(key, value, 0)
    \/ pc = 0 /\ \E key \in Keys : MapRemove(key)
    \/ pc = 0 /\ \E buffer \in malloc_keys(read_capacity(size)) : ReloadSet(buffer)
    \/ pc = 0 /\ ReloadMap

SpecSerialize == InitSerialize /\ [][NextSerialize]_vars

\* the round trip of the step that began in the unprimed state
RoundTripHolds ==
    /\ size' = size
    /\ \A k \in Keys :
          /\ contains(keys', capacity', k) <=> contains(keys, capacity, k)
          /\ Stored(keys', k) <=> Stored(keys, k)
          /\ (IsMap /\ Stored(keys, k)) =>
                hash_map_get(keys', values', capacity', k).value
                    = hash_map_get(keys, values, capacity, k).value
    /\ Reachable(keys', capacity')

\* C13: write followed by read into a fresh container gives a table of the
\* same size with the same keys present and, for a map, the same value for
\* every key, and the reloaded table satisfies the reachability invariant,
\* whatever the bucket layout of the original and whatever the buffer that
\* read allocates holds.
C13_RoundTrip == [][last'.op = "read" => RoundTripHolds]_vars

\* C13 (what the code does keep): the round trip holds for every map, and for
\* every set whose read found its malloc'd key buffer all-zero.
C13_RoundTripZeroed == [][(last'.op = "read" /\ ~last'.hit) => RoundTripHolds]_vars

\* a set of two keys was written and read back into a buffer that was not
\* all-zero
C13_Witness ==
    /\ kind = "set" /\ last.op = "read" /\ last.hit /\ size >= 2

\* ------------------------------------------------------------- array (array.h)
\* An array in the middle of a call is a record
\*   [data, length, capacity, ret, nomem]
\* data maps the indices below capacity to their content; UNINIT is the
\* content of memory realloc added
MaxArrayLength == 5

\* core::resize: realloc keeps the old buffer and returns NULL when it fails
array_resize(c, new_capacity, fail) ==
    IF fail THEN [c EXCEPT !.ret = FALSE, !.nomem = TRUE]
    ELSE [c EXCEPT !.data = [i \in 0..(new_capacity - 1) |->
                               IF i \in DOMAIN c.data THEN c.data[i] ELSE UNINIT]]

\* mutant: expand doubles the capacity once
expand_once(c, cap, new_length, fail) ==
    [array_resize(c, cap * RESIZE_FACTOR, fail) EXCEPT !.capacity = cap * RESIZE_FACTOR]

\* core::expand: do capacity *= RESIZE_FACTOR while (new_length > capacity),
\* then resize; `cap` is the variable the caller passed by reference
RECURSIVE expand(_, _, _, _)
expand(c, cap, new_length, fail) ==
    IF new_length > cap * RESIZE_FACTOR
    THEN expand(c, cap * RESIZE_FACTOR, new_length, fail)
    ELSE [array_resize(c, cap * RESIZE_FACTOR, fail) EXCEPT !.capacity = cap * RESIZE_FACTOR]

\* mutant: ensure_capacity passes its own capacity to expand
ensure_capacity_by_reference(c, new_length, fail) ==
    IF new_length <= c.capacity THEN c
    ELSE expand(c, c.capacity, new_length, fail)

\* core::ensure_capacity: expand works on a copy of the capacity, which is
\* stored only when expand succeeded
ensure_capacity(c, new_length, fail) ==
    IF new_length <= c.capacity THEN c
    ELSE LET r == expand(c, c.capacity, new_length, fail)
         IN  IF ~r.ret THEN [r EXCEPT !.capacity = c.capacity] ELSE r

\* memcpy(&data[length], elements, sizeof(T) * size)
memcpy(dat, at, elements) ==
    [i \in DOMAIN dat |->
        IF i >= at /\ i < at + Len(elements) THEN elements[i - at + 1] ELSE dat[i]]

array_append(c, elements, fail) ==
    LET r == ensure_capacity(c, c.length + Len(elements), fail)
    IN  IF ~r.ret THEN r
        ELSE [r EXCEPT !.data = memcpy(r.data, r.length, elements),
                       !.length = @ + Len(elements)]

array_add(c, element, fail) ==
    LET r == ensure_capacity(c, c.length + 1, fail)
    IN  IF ~r.ret THEN r
        ELSE [r EXCEPT !.data = memcpy(r.data, r.length, <<element>>), !.length = @ + 1]

\* array(initial_capacity): malloc'd data, length 0
array_initialize(initial_capacity) ==
    [data |-> malloc_values(initial_capacity), length |-> 0, capacity |-> initial_capacity]

\* array_test: array<char> buf(1), then the three strings it appends
ArrayTestCapacity == 1
ArrayTestScript ==
    << <<48, 49, 50, 51, 52, 53, 54, 55, 56, 57, 32>>,
       <<97, 98, 99, 100, 101, 102, 103, 104, 105, 106, 107, 108, 109, 110, 111, 112, 113, 114, 115, 116, 117, 118, 119, 120, 121, 122, 32>>,
       <<57, 56, 55, 54, 53, 52, 51, 50, 49, 48, 32>> >>

ArrayCall == [data |-> array.data, length |-> array.length, capacity |-> array.capacity,
              ret |-> TRUE, nomem |-> FALSE]

\* the call returned: the array's fields, the record of the call and its
\* arguments (operands) are stored
ArrayCommit(c, op, args) ==
    /\ array' = [data |-> c.data, length |-> c.length, capacity |-> c.capacity]
    /\ last' = [NoCall EXCEPT !.op = op, !.ret = c.ret, !.nomem = c.nomem]
    /\ operands' = args
    /\ UNCHANGED <<kind, hasher, keys, capacity, size, values, shadow>>

InitArray ==
    /\ \/ kind = "array" /\ array \in {array_initialize(n) : n \in 1..MaxInitCapacity}
       \/ kind = "array_test" /\ array = array_initialize(ArrayTestCapacity)
    /\ operands = <<>>
    /\ hasher = <<>> /\ keys = <<>> /\ capacity = 0 /\ size = 0 /\ values = <<>>
    /\ shadow = <<>> /\ last = NoCall /\ pc = 0

ArrayAdd(element, fail) ==
    /\ kind = "array" /\ array.length < MaxArrayLength
    /\ ArrayCommit(array_add(ArrayCall, element, fail), "add", [elements |-> <<element>>])
    /\ UNCHANGED pc

ArrayAppend(elements, fail) ==
    /\ kind = "array" /\ array.length + Len(elements) <= MaxArrayLength
    /\ ArrayCommit(array_append(ArrayCall, elements, fail), "append", [elements |-> elements])
    /\ UNCHANGED pc

ArrayEnsureCapacity(new_length, fail) ==
    /\ kind = "array"
    /\ ArrayCommit(ensure_capacity(ArrayCall, new_length, fail), "ensure_capacity",
                   [new_length |-> new_length])
    /\ UNCHANGED pc

\* the next append of array_test (its allocations succeed)
ArrayTestAppend ==
    /\ kind = "array_test" /\ pc < Len(ArrayTestScript)
    /\ ArrayCommit(array_append(ArrayCall, ArrayTestScript[pc + 1], FALSE), "append",
                   [elements |-> ArrayTestScript[pc + 1]])
    /\ pc' = pc + 1

NextArray ==
    \/ \E element \in Vals, fail \in BOOLEAN : ArrayAdd(element, fail)
    \/ \E elements \in UNION {[1..n -> Vals] : n \in 0..MaxLength}, fail \in BOOLEAN :
          ArrayAppend(elements, fail)
    \/ \E new_length \in 0..(2 * MaxArrayLength), fail \in BOOLEAN :
          ArrayEnsureCapacity(new_length, fail)
    \/ ArrayTestAppend

SpecArray == InitArray /\ [][NextArray]_<<vars, arrays>>

allvars == <<vars, arrays>>

\* c * 2^k for the least k >= 1 that reaches n, or c itself when n <= c
GrownCapacity(c, n) ==
    IF n <= c THEN c
    ELSE CHOOSE x \in {c * 2^k : k \in 1..8} : x >= n /\ (x = 2 * c \/ x \div 2 < n)

\* data below `upto` is the same in both arrays
SameElements(old, new, upto) == \A i \in 0..(upto - 1) : new.data[i] = old.data[i]

\* C14: for capacity c >= 1, ensure_capacity(n) leaves the capacity unchanged
\* when n <= c and otherwise sets it to c * 2^k for the least k >= 1 with
\* c * 2^k >= n, never changing length or the elements below length;
\* append(elements, m) and add then store the m elements in order at indices
\* length .. length + m - 1; array_test: capacity 1, append 11 -> length 11,
\* capacity 16; append 27 -> length 38, capacity 64; append 11 -> length 49,
\* capacity 64.
C14_ArrayGrowth ==
    [][/\ (last'.op = "ensure_capacity" /\ last'.ret) =>
            /\ array'.capacity = GrownCapacity(array.capacity, operands'.new_length)
            /\ array'.length = array.length
            /\ SameElements(array, array', array.length)
       /\ (last'.op \in {"append", "add"} /\ last'.ret) =>
            LET m == Len(operands'.elements)
            IN  /\ array'.capacity = GrownCapacity(array.capacity, array.length + m)
                /\ array'.length = array.length + m
                /\ SameElements(array, array', array.length)
                /\ \A i \in 1..m : array'.data[array.length + i - 1] = operands'.elements[i]
       /\ kind = "array_test" =>
            /\ pc' = 1 => array'.length = 11 /\ array'.capacity = 16
            /\ pc' = 2 => array'.length = 38 /\ array'.capacity = 64
            /\ pc' = 3 => array'.length = 49 /\ array'.capacity = 64]_allvars

\* array_test has appended its three strings
C14_Witness == kind = "array_test" /\ pc = 3 /\ last.ret /\ array.length = 49

\* C15: when the reallocation inside ensure_capacity fails, the call and the
\* add / append that issued it return false and data, length and capacity
\* are as before the call.
C15_ArrayResizeFailure ==
    [][last'.nomem => ~last'.ret /\ array' = array]_allvars

\* an append to a full array whose reallocation failed
C15_Witness ==
    /\ kind = "array" /\ last.op = "append" /\ last.nomem /\ ~last.ret
    /\ array.length >= 1 /\ array.length = array.capacity
    /\ Len(operands.elements) = MaxLength

\* ------------------------------------------------------------- array_map (map.h)
\* array_map has the fields keys, values, capacity and size; the pairs are
\* those at the indices below size. A call record is that of a table; the
\* key buffer can be larger than capacity (ensure_capacity that failed after
\* it had grown the keys).
realloc(buffer, new_capacity) ==
    [i \in 0..(new_capacity - 1) |-> IF i \in DOMAIN buffer THEN buffer[i] ELSE UNINIT]

\* the loop of core::expand
RECURSIVE expanded_capacity(_, _)
expanded_capacity(cap, new_length) ==
    IF new_length > cap * RESIZE_FACTOR
    THEN expanded_capacity(cap * RESIZE_FACTOR, new_length)
    ELSE cap * RESIZE_FACTOR

\* array_map::ensure_capacity: expand(keys, ...), then resize(values, ...);
\* fail is the number of the reallocation that returns NULL, 0 for none
array_map_ensure_capacity(c, new_length, fail) ==
    IF new_length <= c.capacity THEN c
    ELSE LET new_capacity == expanded_capacity(c.capacity, new_length)
         IN  IF fail = 1 THEN [c EXCEPT !.ret = FALSE, !.nomem = TRUE, !.allocs = 1]
             ELSE IF fail = 2
             THEN [c EXCEPT !.keys = realloc(@, new_capacity),
                            !.ret = FALSE, !.nomem = TRUE, !.allocs = 2]
             ELSE [c EXCEPT !.keys = realloc(@, new_capacity),
                            !.values = realloc(@, new_capacity),
                            !.capacity = new_capacity, !.allocs = 2]

\* array_map::index_of: the first index below size that holds the key, or size
RECURSIVE array_map_index_of(_, _, _, _)
array_map_index_of(ks, sz, key, i) ==
    IF i >= sz THEN sz
    ELSE IF ks[i] = key THEN i
    ELSE array_map_index_of(ks, sz, key, i + 1)

\* mutant: put that does not look the key up
array_map_put_appends(c, key, value, fail) ==
    LET r == array_map_ensure_capacity(c, c.size + 1, fail)
    IN  IF ~r.ret THEN r
        ELSE [r EXCEPT !.keys[r.size] = key, !.values[r.size] = value, !.size = @ + 1]

array_map_put(c, key, value, fail) ==
    LET index == array_map_index_of(c.keys, c.size, key, 0)
    IN  IF index < c.size THEN [c EXCEPT !.values[index] = value]
        ELSE LET r == array_map_ensure_capacity(c, c.size + 1, fail)
             IN  IF ~r.ret THEN r
                 ELSE [r EXCEPT !.keys[r.size] = key, !.values[r.size] = value,
                                !.size = @ + 1]

\* array_map::get(key, contains)
array_map_get(ks, vs, sz, key) ==
    LET index == array_map_index_of(ks, sz, key, 0)
    IN  [contains |-> index # sz,
         value |-> IF index \in DOMAIN vs THEN vs[index] ELSE UNINIT]

\* mutant: remove_at moves the last key and leaves its value behind
array_map_remove_at_key_only(c, index) ==
    IF index = c.size - 1 THEN [c EXCEPT !.size = @ - 1]
    ELSE [c EXCEPT !.size = @ - 1, !.keys[index] = c.keys[c.size - 1]]

\* array_map::remove_at: the last pair is moved into the removed position
array_map_remove_at(c, index) ==
    IF index = c.size - 1 THEN [c EXCEPT !.size = @ - 1]
    ELSE [c EXCEPT !.size = @ - 1,
                   !.keys[index] = c.keys[c.size - 1],
                   !.values[index] = c.values[c.size - 1]]

\* mutant: remove reporting whether the key was there
array_map_remove_reports(c, key) ==
    LET index == array_map_index_of(c.keys, c.size, key, 0)
    IN  IF index < c.size THEN array_map_remove_at(c, index) ELSE [c EXCEPT !.ret = FALSE]

\* array_map::remove returns true whether or not the key was there
array_map_remove(c, key) ==
    LET index == array_map_index_of(c.keys, c.size, key, 0)
    IN  IF index < c.size THEN array_map_remove_at(c, index) ELSE c

ArrayMapCommit(c, op, hit, args) ==
    /\ keys' = c.keys /\ values' = c.values /\ capacity' = c.capacity /\ size' = c.size
    /\ last' = [NoCall EXCEPT !.op = op, !.hit = hit, !.ret = c.ret, !.nomem = c.nomem,
                              !.allocs = c.allocs]
    /\ operands' = args
    /\ UNCHANGED <<kind, hasher, array, pc>>

\* array_map(initial_capacity): both buffers are malloc'd
InitArrayMap ==
    /\ kind = "array_map"
    /\ capacity \in 1..MaxInitCapacity
    /\ keys = malloc_values(capacity) /\ values = malloc_values(capacity) /\ size = 0
    /\ shadow = [k \in Keys |-> 0]
    /\ hasher = <<>> /\ last = NoCall /\ pc = 0 /\ NoArrays

ArrayMapPut(key, value, fail) ==
    LET c == array_map_put(Call, key, value, fail)
    IN  /\ ArrayMapCommit(c, "put", array_map_index_of(keys, size, key, 0) < size,
                          [key |-> key, value |-> value])
        /\ shadow' = IF c.ret THEN [shadow EXCEPT ![key] = value] ELSE shadow

ArrayMapRemove(key) ==
    /\ ArrayMapCommit(array_map_remove(Call, key), "remove",
                      array_map_index_of(keys, size, key, 0) < size, [key |-> key])
    /\ shadow' = [shadow EXCEPT ![key] = 0]

ArrayMapRemoveAt(index) ==
    /\ ArrayMapCommit(array_map_remove_at(Call, index), "remove_at", TRUE, [index |-> index])
    /\ shadow' = [shadow EXCEPT ![keys[index]] = 0]

NextArrayMap ==
    \/ \E key \in Keys, value \in Vals, fail \in 0..2 : ArrayMapPut(key, value, fail)
    \/ \E key \in Keys : ArrayMapRemove(key)
    \/ \E index \in 0..(size - 1) : ArrayMapRemoveAt(index)

SpecArrayMap == InitArrayMap /\ [][NextArrayMap]_allvars

\* C16: array_map is a finite map with unique keys: the keys at the indices
\* below size are pairwise distinct, size is the number of keys put and not
\* removed since, get(k, contains) reports presence and the value of the
\* latest put; put on a present key overwrites in place, put on an absent key
\* appends at index size.
C16_ArrayMapRefinement ==
    /\ [](/\ \A i, j \in 0..(size - 1) : keys[i] = keys[j] => i = j
          /\ size = Cardinality(Live)
          /\ \A k \in Keys :
                LET g == array_map_get(keys, values, size, k)
                IN  /\ g.contains <=> shadow[k] # 0
                    /\ g.contains => g.value = shadow[k])
    /\ [][(last'.op = "put" /\ last'.ret) =>
            LET at == array_map_index_of(keys, size, operands'.key, 0)
            IN  /\ keys'[at] = operands'.key /\ values'[at] = operands'.value
                /\ size' = IF last'.hit THEN size ELSE size + 1
                /\ \A i \in 0..(size - 1) :
                      /\ keys'[i] = keys[i]
                      /\ i # at => values'[i] = values[i]]_allvars

\* a put that overwrote the value of a key that is not the first, after a
\* reallocation and a removal
C16_Witness ==
    /\ kind = "array_map" /\ last.op = "put" /\ last.hit /\ last.ret
    /\ size >= 2 /\ size < Cardinality({i \in DOMAIN keys : keys[i] # UNINIT})
    /\ capacity > MaxInitCapacity
    /\ keys[0] # operands.key

\* C17: remove_at(index) with index < size decrements size, leaves the pairs
\* below index as they were, puts the pair that was last at position index,
\* and leaves the pairs strictly between index and the old last index as
\* they were.
C17_RemoveAtFrame ==
    [][last'.op = "remove_at" =>
         LET index == operands'.index
         IN  /\ size' = size - 1
             /\ \A i \in 0..(size - 2) :
                   IF i = index
                   THEN keys'[i] = keys[size - 1] /\ values'[i] = values[size - 1]
                   ELSE keys'[i] = keys[i] /\ values'[i] = values[i]]_allvars

\* remove_at of the first of three pairs
C17_Witness ==
    /\ kind = "array_map" /\ last.op = "remove_at" /\ operands.index = 0 /\ size = 2
    /\ values[0] # values[1]

\* ------------------------------------------- set operations on sorted arrays
\* A C array is a sequence; the element at index i is a[i + 1]. A search
\* returns [index, ok]: ok tells that every index it read was inside the array.
MaxElement == 5

\* the loop of binary_search: while (min < max) halve the interval
RECURSIVE Bisect(_, _, _, _)
Bisect(a, b, min, max) ==
    IF min < max
    THEN LET mid == (max + min) \div 2
         IN  IF a[mid + 1] < b THEN Bisect(a, b, mid + 1, max) ELSE Bisect(a, b, min, mid)
    ELSE [index |-> min, ok |-> TRUE]

\* mutant: the least index whose element is greater than b
binary_search_past_equal(a, b, min, max) ==
    IF ~(min \in 0..(Len(a) - 1) /\ max \in 0..(Len(a) - 1)) THEN [index |-> min, ok |-> FALSE]
    ELSE IF a[max + 1] <= b THEN [index |-> max + 1, ok |-> TRUE]
    ELSE Bisect(a, b + 1, min, max)

\* binary_search(a, b, min, max): the least index in min..max whose element
\* is at least b, or max + 1; it reads a[max] and elements between min and max
binary_search(a, b, min, max) ==
    IF ~(min \in 0..(Len(a) - 1) /\ max \in 0..(Len(a) - 1)) THEN [index |-> min, ok |-> FALSE]
    ELSE IF a[max + 1] < b THEN [index |-> max + 1, ok |-> TRUE]
    ELSE Bisect(a, b, min, max)

\* if (BinarySearch) at = binary_search(a, b, at, length - 1); else at++;
Advance(a, b, at, BinarySearch) ==
    IF BinarySearch THEN binary_search(a, b, at, Len(a) - 1)
    ELSE [index |-> at + 1, ok |-> TRUE]

\* set_union_helper<RemoveDuplicates = true>(dst, dst_length, item)
set_union_helper(dst, item) ==
    IF Len(dst) = 0 \/ dst[Len(dst)] # item THEN Append(dst, item) ELSE dst

\* set_union(dst, dst_length, first, first_length, second, second_length)
RECURSIVE set_union(_, _, _, _, _)
set_union(first, second, i, j, dst) ==
    IF i < Len(first) /\ j < Len(second)
    THEN IF first[i + 1] = second[j + 1]
         THEN set_union(first, second, i + 1, j + 1, set_union_helper(dst, first[i + 1]))
         ELSE IF first[i + 1] < second[j + 1]
         THEN set_union(first, second, i + 1, j, set_union_helper(dst, first[i + 1]))
         ELSE set_union(first, second, i, j + 1, set_union_helper(dst, second[j + 1]))
    ELSE IF i < Len(first)
    THEN set_union(first, second, i + 1, j, set_union_helper(dst, first[i + 1]))
    ELSE IF j < Len(second)
    THEN set_union(first, second, i, j + 1, set_union_helper(dst, second[j + 1]))
    ELSE dst

\* set_intersect(intersection, intersection_length, first, ..., second, ...)
RECURSIVE set_intersect(_, _, _, _, _, _, _)
set_intersect(first, second, i, j, intersection, ok, BinarySearch) ==
    IF ~(ok /\ i < Len(first) /\ j < Len(second)) THEN [dst |-> intersection, ok |-> ok]
    ELSE IF first[i + 1] = second[j + 1]
    THEN set_intersect(first, second, i + 1, j + 1, Append(intersection, first[i + 1]),
                       ok, BinarySearch)
    ELSE IF first[i + 1] < second[j + 1]
    THEN LET n == Advance(first, second[j + 1], i, BinarySearch)
         IN  set_intersect(first, second, n.index, j, intersection, n.ok, BinarySearch)
    ELSE LET n == Advance(second, first[i + 1], j, BinarySearch)
         IN  set_intersect(first, second, i, n.index, intersection, n.ok, BinarySearch)

\* the in-place set_intersect(first, first_length, second, second_length):
\* the result is first[0 .. index - 1]
RECURSIVE set_intersect_in_place(_, _, _, _, _, _, _)
set_intersect_in_place(first, second, index, i, j, ok, BinarySearch) ==
    IF ~(ok /\ i < Len(first) /\ j < Len(second))
    THEN [dst |-> SubSeq(first, 1, index), ok |-> ok]
    ELSE IF first[i + 1] = second[j + 1]
    THEN set_intersect_in_place([first EXCEPT ![index + 1] = first[i + 1]], second,
                                index + 1, i + 1, j + 1, ok, BinarySearch)
    ELSE IF first[i + 1] < second[j + 1]
    THEN LET n == Advance(first, second[j + 1], i, BinarySearch)
         IN  set_intersect_in_place(first, second, index, n.index, j, n.ok, BinarySearch)
    ELSE LET n == Advance(second, first[i + 1], j, BinarySearch)
         IN  set_intersect_in_place(first, second, index, i, n.index, n.ok, BinarySearch)

\* is_intersection_empty(first, first_length, second, second_length)
RECURSIVE is_intersection_empty(_, _, _, _, _, _)
is_intersection_empty(first, second, i, j, ok, BinarySearch) ==
    IF ~(ok /\ i < Len(first) /\ j < Len(second)) THEN [ret |-> TRUE, ok |-> ok]
    ELSE IF first[i + 1] = second[j + 1] THEN [ret |-> FALSE, ok |-> ok]
    ELSE IF first[i + 1] < second[j + 1]
    THEN LET n == Advance(first, second[j + 1], i, BinarySearch)
         IN  is_intersection_empty(first, second, n.index, j, n.ok, BinarySearch)
    ELSE LET n == Advance(second, first[i + 1], j, BinarySearch)
         IN  is_intersection_empty(first, second, i, n.index, n.ok, BinarySearch)

\* is_subset(first, first_length, second, second_length)
RECURSIVE is_subset(_, _, _, _, _, _)
is_subset(first, second, i, j, ok, BinarySearch) ==
    IF ~(ok /\ i < Len(first) /\ j < Len(second)) THEN [ret |-> i = Len(first), ok |-> ok]
    ELSE IF first[i + 1] = second[j + 1]
    THEN is_subset(first, second, i + 1, j + 1, ok, BinarySearch)
    ELSE IF first[i + 1] < second[j + 1] THEN [ret |-> FALSE, ok |-> ok]
    ELSE LET n == Advance(second, first[i + 1], j, BinarySearch)
         IN  is_subset(first, second, i, n.index, n.ok, BinarySearch)

\* mutant: set_subtract without the copy of the rest of `first`
RECURSIVE set_subtract_no_tail(_, _, _, _, _, _, _)
set_subtract_no_tail(first, second, i, j, dst, ok, BinarySearch) ==
    IF ~(ok /\ i < Len(first) /\ j < Len(second)) THEN [dst |-> dst, ok |-> ok]
    ELSE IF first[i + 1] = second[j + 1]
    THEN set_subtract_no_tail(first, second, i + 1, j + 1, dst, ok, BinarySearch)
    ELSE IF first[i + 1] < second[j + 1]
    THEN LET n == Advance(first, second[j + 1], i, BinarySearch)
         IN  set_subtract_no_tail(first, second, n.index, j,
                                  dst \o SubSeq(first, i + 1, n.index), n.ok, BinarySearch)
    ELSE LET n == Advance(second, first[i + 1], j, BinarySearch)
         IN  set_subtract_no_tail(first, second, i, n.index, dst, n.ok, BinarySearch)

\* set_subtract(dst, dst_length, first, ..., second, ...): the elements
\* first[i .. next_i - 1] are appended to dst (the one element first[i] without
\* BinarySearch); the memcpy after the loop appends the rest of `first`
RECURSIVE set_subtract(_, _, _, _, _, _, _)
set_subtract(first, second, i, j, dst, ok, BinarySearch) ==
    IF ~(ok /\ i < Len(first) /\ j < Len(second))
    THEN [dst |-> dst \o SubSeq(first, i + 1, Len(first)), ok |-> ok]
    ELSE IF first[i + 1] = second[j + 1]
    THEN set_subtract(first, second, i + 1, j + 1, dst, ok, BinarySearch)
    ELSE IF first[i + 1] < second[j + 1]
    THEN LET n == Advance(first, second[j + 1], i, BinarySearch)
         IN  set_subtract(first, second, n.index, j,
                          dst \o SubSeq(first, i + 1, n.index), n.ok, BinarySearch)
    ELSE LET n == Advance(second, first[i + 1], j, BinarySearch)
         IN  set_subtract(first, second, i, n.index, dst, n.ok, BinarySearch)

\* for (; i < upto; i++) { first[index] = first[i]; index++; }  (index <= i)
MoveDown(first, index, i, upto) ==
    [k \in DOMAIN first |->
        IF k - 1 >= index /\ k - 1 < index + (upto - i) THEN first[k - index + i] ELSE first[k]]

\* the in-place set_subtract(first, first_length, second, second_length)
RECURSIVE set_subtract_in_place(_, _, _, _, _, _, _)
set_subtract_in_place(first, second, index, i, j, ok, BinarySearch) ==
    IF ~(ok /\ i < Len(first) /\ j < Len(second))
    THEN [dst |-> SubSeq(MoveDown(first, index, i, Len(first)), 1, index + Len(first) - i),
          ok |-> ok]
    ELSE IF first[i + 1] = second[j + 1]
    THEN set_subtract_in_place(first, second, index, i + 1, j + 1, ok, BinarySearch)
    ELSE IF first[i + 1] < second[j + 1]
    THEN LET n == Advance(first, second[j + 1], i, BinarySearch)
         IN  set_subtract_in_place(MoveDown(first, index, i, n.index), second,
                                   index + (n.index - i), n.index, j, n.ok, BinarySearch)
    ELSE LET n == Advance(second, first[i + 1], j, BinarySearch)
         IN  set_subtract_in_place(first, second, index, i, n.index, n.ok, BinarySearch)

\* the arguments: sorted arrays without repetitions over 1..MaxElement, and
\* the arrays of the example
SortedArrays ==
    {a \in UNION {[1..n -> 1..MaxElement] : n \in 0..MaxElement} :
        \A i \in 1..(Len(a) - 1) : a[i] < a[i + 1]}

InitSets ==
    /\ kind = "sets"
    /\ \E a, b \in SortedArrays \cup {<<1, 3, 5, 7>>, <<2, 3, 6, 7>>} :
          operands = [first |-> a, second |-> b, op |-> "none", binary |-> FALSE,
                      dst |-> <<>>, ret |-> TRUE, ok |-> TRUE]
    /\ array = <<>>
    /\ hasher = <<>> /\ keys = <<>> /\ capacity = 0 /\ size = 0 /\ values = <<>>
    /\ shadow = <<>> /\ last = NoCall /\ pc = 0

\* one call on the arguments; r is its result
Apply(op, BinarySearch, r) ==
    /\ kind = "sets" /\ operands.op = "none"
    /\ operands' = [operands EXCEPT !.op = op, !.binary = BinarySearch,
                                    !.dst = IF "dst" \in DOMAIN r THEN r.dst ELSE @,
                                    !.ret = IF "ret" \in DOMAIN r THEN r.ret ELSE @,
                                    !.ok = r.ok]
    /\ UNCHANGED <<vars, array>>

NextSets ==
    LET first == operands.first
        second == operands.second
    IN  \/ Apply("set_union", FALSE, [dst |-> set_union(first, second, 0, 0, <<>>), ok |-> TRUE])
        \/ \E b \in BOOLEAN :
              Apply("set_intersect", b, set_intersect(first, second, 0, 0, <<>>, TRUE, b))
        \/ \E b \in BOOLEAN :
              Apply("set_intersect_in_place", b,
                    set_intersect_in_place(first, second, 0, 0, 0, TRUE, b))
        \/ \E b \in BOOLEAN :
              Apply("set_subtract", b, set_subtract(first, second, 0, 0, <<>>, TRUE, b))
        \/ \E b \in BOOLEAN :
              Apply("set_subtract_in_place", b,
                    set_subtract_in_place(first, second, 0, 0, 0, TRUE, b))
        \/ \E b \in BOOLEAN : Apply("is_subset", b, is_subset(first, second, 0, 0, TRUE, b))
        \/ \E b \in BOOLEAN :
              Apply("is_intersection_empty", b,
                    is_intersection_empty(first, second, 0, 0, TRUE, b))

SpecSets == InitSets /\ [][NextSets]_allvars

Elements(a) == {a[i] : i \in DOMAIN a}

\* the sorted array without repetitions of the elements of S
SortedArrayOf(S) ==
    CHOOSE a \in [1..Cardinality(S) -> S] : \A i \in 1..(Cardinality(S) - 1) : a[i] < a[i + 1]

\* C18: for all sorted duplicate-free arrays A and B, empty ones included,
\* set_union (RemoveDuplicates), set_intersect and set_subtract append to an
\* empty destination exactly the sorted duplicate-free array of A union B,
\* A intersect B and A minus B, and is_subset(A, B) is true exactly when
\* every element of A is in B; [1,3,5,7] and [2,3,6,7] give [1,2,3,5,6,7],
\* [3,7] and [1,5].
C18_SetOperations ==
    kind = "sets" =>
        LET A == Elements(operands.first)
            B == Elements(operands.second)
            example == operands.first = <<1, 3, 5, 7>> /\ operands.second = <<2, 3, 6, 7>>
        IN  /\ operands.op = "set_union" =>
                /\ operands.dst = SortedArrayOf(A \cup B)
                /\ example => operands.dst = <<1, 2, 3, 5, 6, 7>>
            /\ (operands.op = "set_intersect" /\ ~operands.binary) =>
                /\ operands.dst = SortedArrayOf(A \cap B)
                /\ example => operands.dst = <<3, 7>>
            /\ (operands.op = "set_subtract" /\ ~operands.binary) =>
                /\ operands.dst = SortedArrayOf(A \ B)
                /\ example => operands.dst = <<1, 5>>
            /\ (operands.op = "is_subset" /\ ~operands.binary) =>
                (operands.ret <=> A \subseteq B)

\* set_subtract was applied to the arrays of the example
C18_Witness ==
    /\ kind = "sets" /\ operands.op = "set_subtract" /\ ~operands.binary
    /\ operands.first = <<1, 3, 5, 7>> /\ operands.second = <<2, 3, 6, 7>>

\* C19: with BinarySearch = true, set_intersect (both forms), the in-place
\* set_subtract, is_subset and is_intersection_empty terminate and return
\* what they return with BinarySearch = false, for all sorted duplicate-free
\* arguments, and every index passed to binary_search and every array access
\* stays inside the arrays.
C19_BinarySearchVariants ==
    (kind = "sets" /\ operands.binary) =>
        LET first == operands.first
            second == operands.second
        IN  /\ operands.ok
            /\ operands.op = "set_intersect" =>
                  operands.dst = set_intersect(first, second, 0, 0, <<>>, TRUE, FALSE).dst
            /\ operands.op = "set_intersect_in_place" =>
                  operands.dst = set_intersect_in_place(first, second, 0, 0, 0, TRUE, FALSE).dst
            /\ operands.op = "set_subtract_in_place" =>
                  operands.dst = set_subtract_in_place(first, second, 0, 0, 0, TRUE, FALSE).dst
            /\ operands.op = "is_subset" =>
                  operands.ret = is_subset(first, second, 0, 0, TRUE, FALSE).ret
            /\ operands.op = "is_intersection_empty" =>
                  operands.ret = is_intersection_empty(first, second, 0, 0, TRUE, FALSE).ret

\* the in-place set_subtract, with binary search, skipped three elements of
\* `first` at once and then passed an equal one
C19_Witness ==
    /\ kind = "sets" /\ operands.binary /\ operands.op = "set_subtract_in_place"
    /\ operands.first = <<1, 2, 3, 4, 5>> /\ operands.second = <<4>>
    /\ operands.dst = <<1, 2, 3, 5>>

\* ------------------------------------------------------------- sorting (array.h)
\* The forms with keys and values are modelled; the forms with keys only run
\* the same statements without those on values. An array being sorted is a
\* record [keys, values, ok]; the element at index i is keys[i + 1]; ok tells
\* that every index read or written was inside start..end.
INSERTION_THRESHOLD == 16

\* the while loop of insertion_sort: the hole moves down past greater keys;
\* base is the index of the first element of the array the function was given
RECURSIVE InsertionHole(_, _, _, _, _)
InsertionHole(a, base, hole, item, value) ==
    IF hole > 0 /\ a.keys[base + hole] > item
    THEN InsertionHole([a EXCEPT !.keys[base + hole + 1] = a.keys[base + hole],
                                 !.values[base + hole + 1] = a.values[base + hole]],
                       base, hole - 1, item, value)
    ELSE [a EXCEPT !.keys[base + hole + 1] = item, !.values[base + hole + 1] = value]

\* insertion_sort(K* keys, V* values, unsigned int count), from its i-th round
RECURSIVE insertion_sort(_, _, _, _)
insertion_sort(a, base, i, count) ==
    IF i >= count THEN a
    ELSE insertion_sort(InsertionHole(a, base, i, a.keys[base + i + 1], a.values[base + i + 1]),
                        base, i + 1, count)

get_pivot(ks, start, end) == ks[((end + start) \div 2) + 1]

\* while (keys[l] < p) l++;  the result is outside start..end if the scan left
RECURSIVE ScanUp(_, _, _, _, _)
ScanUp(ks, p, l, start, end) ==
    IF l \in start..end /\ ks[l + 1] < p THEN ScanUp(ks, p, l + 1, start, end) ELSE l

\* while (p < keys[r]) r--;
RECURSIVE ScanDown(_, _, _, _, _)
ScanDown(ks, p, r, start, end) ==
    IF r \in start..end /\ p < ks[r + 1] THEN ScanDown(ks, p, r - 1, start, end) ELSE r

Swap(f, i, j) == [f EXCEPT ![i] = f[j], ![j] = f[i]]

\* mutant: the partition swaps the keys and leaves the values
RECURSIVE quick_sort_partition_keys_only(_, _, _, _, _, _)
quick_sort_partition_keys_only(a, p, start, end, l, r) ==
    LET l1 == ScanUp(a.keys, p, l, start, end)
        r1 == ScanDown(a.keys, p, r, start, end)
    IN  IF ~(l1 \in start..end /\ r1 \in start..end)
        THEN [a |-> [a EXCEPT !.ok = FALSE], l |-> l1, r |-> r1]
        ELSE IF l1 = r1 THEN [a |-> a, l |-> l1 + 1, r |-> IF r1 > 0 THEN r1 - 1 ELSE r1]
        ELSE IF l1 > r1 THEN [a |-> a, l |-> l1, r |-> r1]
        ELSE quick_sort_partition_keys_only(
                 [a EXCEPT !.keys = Swap(@, l1 + 1, r1 + 1)], p, start, end, l1 + 1, r1 - 1)

\* quick_sort_partition(keys, values, start, end, l, r), p the pivot it took
RECURSIVE quick_sort_partition(_, _, _, _, _, _)
quick_sort_partition(a, p, start, end, l, r) ==
    LET l1 == ScanUp(a.keys, p, l, start, end)
        r1 == ScanDown(a.keys, p, r, start, end)
    IN  IF ~(l1 \in start..end /\ r1 \in start..end)
        THEN [a |-> [a EXCEPT !.ok = FALSE], l |-> l1, r |-> r1]
        ELSE IF l1 = r1 THEN [a |-> a, l |-> l1 + 1, r |-> IF r1 > 0 THEN r1 - 1 ELSE r1]
        ELSE IF l1 > r1 THEN [a |-> a, l |-> l1, r |-> r1]
        ELSE quick_sort_partition(
                 [a EXCEPT !.keys = Swap(@, l1 + 1, r1 + 1), !.values = Swap(@, l1 + 1, r1 + 1)],
                 p, start, end, l1 + 1, r1 - 1)

\* quick_sort(keys, values, start, end)
RECURSIVE quick_sort(_, _, _)
quick_sort(a, start, end) ==
    IF start >= end \/ ~a.ok THEN a
    ELSE LET part == quick_sort_partition(a, get_pivot(a.keys, start, end), start, end, start, end)
         IN  quick_sort(quick_sort(part.a, start, part.r), part.l, end)

\* sort(keys, values, start, end), the hybrid of the two
RECURSIVE sort(_, _, _)
sort(a, start, end) ==
    IF start >= end \/ ~a.ok THEN a
    ELSE IF start + INSERTION_THRESHOLD >= end
    THEN insertion_sort(a, start, 1, end - start + 1)
    ELSE LET part == quick_sort_partition(a, get_pivot(a.keys, start, end), start, end, start, end)
         IN  sort(sort(part.a, start, part.r), part.l, end)

\* the arrays sorted: every array of 1 to MaxArrayLength keys, the numbers
\* of array_test, and some arrays longer than the threshold of the hybrid
ExampleNumbers == <<4, -6, 4, 2, 0, -6, 1, 4, 2>>
LongArrays ==
    {[i \in 1..n |-> (i * m) % q] : n \in {INSERTION_THRESHOLD + 2, INSERTION_THRESHOLD + 5},
                                   m \in {1, 5, 7}, q \in {2, 7, 19}}
SortInputs ==
    UNION {[1..n -> Keys] : n \in 1..MaxArrayLength} \cup {ExampleNumbers} \cup LongArrays

\* keys and values are the arrays being sorted; values[i] = i numbers the
\* pairs; operands keeps the keys as they were given
InitSort ==
    /\ kind = "sort"
    /\ keys \in SortInputs
    /\ values = [i \in DOMAIN keys |-> i]
    /\ operands = [keys |-> keys, op |-> "none", ok |-> TRUE]
    /\ array = <<>> /\ hasher = <<>> /\ capacity = 0 /\ size = 0
    /\ shadow = <<>> /\ last = NoCall /\ pc = 0

Sorted(op, a) ==
    /\ kind = "sort" /\ operands.op = "none"
    /\ keys' = a.keys /\ values' = a.values
    /\ operands' = [operands EXCEPT !.op = op, !.ok = a.ok]
    /\ UNCHANGED <<kind, hasher, capacity, size, shadow, last, pc, array>>

NextSort ==
    LET a == [keys |-> keys, values |-> values, ok |-> TRUE]
    IN  \/ Sorted("insertion_sort", insertion_sort(a, 0, 1, Len(keys)))
        \/ Sorted("quick_sort", quick_sort(a, 0, Len(keys) - 1))
        \/ Sorted("sort", sort(a, 0, Len(keys) - 1))

SpecSort == InitSort /\ [][NextSort]_allvars

\* C20: for every input of length >= 1, insertion_sort, quick_sort and the
\* hybrid sort terminate and leave the array a non-decreasingly sorted
\* permutation of its input, without reading or writing outside start..end;
\* with values, the keys are sorted and every value is still paired with its
\* key (the pairs are those of the input); the numbers of array_test come
\* out as -6, -6, 0, 1, 2, 2, 4, 4, 4.
C20_SortsAreCorrect ==
    (kind = "sort" /\ operands.op # "none") =>
        /\ operands.ok
        /\ DOMAIN keys = DOMAIN operands.keys /\ DOMAIN values = DOMAIN keys
        /\ \A i \in 1..(Len(keys) - 1) : keys[i] <= keys[i + 1]
        /\ {values[i] : i \in DOMAIN values} = DOMAIN keys
        /\ \A i \in DOMAIN keys : keys[i] = operands.keys[values[i]]
        /\ operands.keys = ExampleNumbers => keys = <<-6, -6, 0, 1, 2, 2, 4, 4, 4>>

\* the hybrid sort partitioned an array longer than its threshold and moved
\* its first pair
C20_Witness ==
    /\ kind = "sort" /\ operands.op = "sort"
    /\ Len(keys) > INSERTION_THRESHOLD + 1
    /\ values[1] # 1 /\ keys # operands.keys

\* ------------------------------------------------------------- unique (array.h)
\* the for loop of unique, from index i (0-based); array[result] is a[result + 1]
RECURSIVE UniqueLoop(_, _, _, _)
UniqueLoop(a, length, result, i) ==
    IF i >= length THEN [array |-> a, result |-> result]
    ELSE IF a[result + 1] # a[i + 1]
    THEN UniqueLoop([a EXCEPT ![result + 2] = a[i + 1]], length, result + 1, i + 1)
    ELSE UniqueLoop(a, length, result, i + 1)

\* unsigned int unique(T* array, size_t length): the array afterwards and
\* the value returned
unique(a, length) ==
    LET r == UniqueLoop(a, length, 0, 1) IN [array |-> r.array, ret |-> r.result + 1]

\* the numbers of array_test after its sorts
SortedNumbers == <<-6, -6, 0, 1, 2, 2, 4, 4, 4>>
UniqueInputs == UNION {[1..n -> Keys] : n \in 0..MaxArrayLength} \cup {SortedNumbers}

\* array is the array given to unique (its first `length` elements);
\* operands keeps it as it was given, and the value returned
InitUnique ==
    /\ kind = "unique"
    /\ \E a \in UniqueInputs : array = [data |-> a, length |-> Len(a)]
    /\ operands = [data |-> array.data, op |-> "none", ret |-> 0]
    /\ hasher = <<>> /\ keys = <<>> /\ values = <<>> /\ capacity = 0 /\ size = 0
    /\ shadow = <<>> /\ last = NoCall /\ pc = 0

Unique ==
    /\ kind = "unique" /\ operands.op = "none"
    /\ LET r == unique(array.data, array.length)
       IN  /\ array' = [array EXCEPT !.data = r.array]
           /\ operands' = [operands EXCEPT !.op = "unique", !.ret = r.ret]
    /\ UNCHANGED vars

\* unique(array<T>& a): a.length = unique(a.data, a.length)
UniqueArray ==
    /\ kind = "unique" /\ operands.op = "none"
    /\ LET r == unique(array.data, array.length)
       IN  /\ array' = [data |-> r.array, length |-> r.ret]
           /\ operands' = [operands EXCEPT !.op = "unique_array", !.ret = r.ret]
    /\ UNCHANGED vars

NextUnique == Unique \/ UniqueArray

SpecUnique == InitUnique /\ [][NextUnique]_allvars

\* the first elements of the maximal runs of equal consecutive elements
RunStarts(a) == {i \in DOMAIN a : i = 1 \/ a[i] # a[i - 1]}
RunHeads(a) ==
    [n \in 1..Cardinality(RunStarts(a)) |->
        a[CHOOSE i \in RunStarts(a) : Cardinality({j \in RunStarts(a) : j <= i}) = n]]

UniqueIsRunHeads ==
    /\ operands.ret = Len(RunHeads(operands.data))
    /\ \A n \in 1..operands.ret : array.data[n] = RunHeads(operands.data)[n]

\* C21: for every input length (0 included) unique returns the number of
\* maximal runs of equal consecutive elements and leaves the first element of
\* each run, in order, in the first that-many positions.
C21_Unique ==
    (kind = "unique" /\ operands.op # "none") => UniqueIsRunHeads

\* what holds: the same for every input of length >= 1, and array_test's
\* numbers come out as -6, 0, 1, 2, 4 with length 5
C21_UniqueNonEmpty ==
    (kind = "unique" /\ operands.op # "none" /\ Len(operands.data) >= 1) =>
        /\ UniqueIsRunHeads
        /\ operands.data = SortedNumbers =>
              operands.ret = 5 /\ SubSeq(array.data, 1, 5) = <<-6, 0, 1, 2, 4>>

\* unique of an array of length 0 returned 1: the array has one element now
C21_Witness ==
    /\ kind = "unique" /\ operands.op = "unique_array"
    /\ operands.data = <<>> /\ operands.ret = 1 /\ array.length = 1

\* ------------------------------------------------------------- two writers (map.h)
\* Two execution contexts call add on one hash_set. Each step below is one
\* read or write of a field (keys, capacity, size) or of a bucket, taken from
\* the statements of add, check_size, resize, next_empty, index_to_insert
\* and place; the allocation succeeds. In this specification
\*   array    is the heap: the key buffers allocated so far, each a record of
\*            its cells and whether it has been freed;
\*   keys     is the field keys, a pointer: the number of a buffer of the heap;
\*   operands gives each context its locals;
\*   pc       gives each context its position;
\*   shadow   tells whether the callers lock around add, and who holds the lock.
Threads == {1, 2}
\* a table is constructed with a capacity in 1..MaxRaceCapacity
MaxRaceCapacity == 2

Locals(element) ==
    [element |-> element, new_size |-> 0, new_capacity |-> 0, old_keys |-> 0,
     old_capacity |-> 0, i |-> 0, item |-> EMPTY, index |-> 0, ret |-> FALSE, resized |-> FALSE]

\* reading or writing bucket `index` of buffer `buffer` is defined only for a
\* buffer that is not freed and an index inside it
Valid(buffer, index) == ~array[buffer].freed /\ index \in DOMAIN array[buffer].cells

InitRace ==
    /\ kind = "race"
    /\ hasher \in HashFunctions
    /\ \E cap \in 1..MaxRaceCapacity, first \in Keys \cup {EMPTY} :
          LET empty == [keys |-> set_all_empty(cap), capacity |-> cap, size |-> 0,
                        values |-> <<>>, ret |-> TRUE, nomem |-> FALSE, allocs |-> 0,
                        freed |-> <<>>]
              c == IF is_empty(first) THEN empty ELSE hash_set_add(empty, first, 0)
          IN  /\ array = <<[cells |-> c.keys, freed |-> FALSE]>>
              /\ capacity = c.capacity
              /\ size = c.size
    /\ keys = 1
    /\ operands \in {[t \in Threads |-> Locals(e[t])] : e \in [Threads -> Keys]}
    /\ pc = [t \in Threads |-> "start"]
    /\ shadow \in {[locking |-> b, owner |-> 0] : b \in BOOLEAN}
    /\ values = <<>> /\ last = NoCall

\* what a step of context t changes besides the shared fields it names
Goto(t, label, locals) ==
    /\ pc' = [pc EXCEPT ![t] = label]
    /\ operands' = [operands EXCEPT ![t] = locals]
    /\ UNCHANGED <<kind, hasher, values, last>>

\* mutant: add is entered without waiting for the lock
AddReadSizeUnlocked(t) ==
    /\ pc[t] = "start"
    /\ shadow' = IF shadow.locking THEN [shadow EXCEPT !.owner = t] ELSE shadow
    /\ Goto(t, "check", [operands[t] EXCEPT !.new_size = size])
    /\ UNCHANGED <<array, keys, capacity, size>>

\* add: check_size(size, ...) reads size for the argument; a caller that
\* locks takes the lock first
AddReadSize(t) ==
    /\ pc[t] = "start"
    /\ shadow.locking => shadow.owner = 0
    /\ shadow' = IF shadow.locking THEN [shadow EXCEPT !.owner = t] ELSE shadow
    /\ Goto(t, "check", [operands[t] EXCEPT !.new_size = size])
    /\ UNCHANGED <<array, keys, capacity, size>>

\* check_size: while (new_size >= capacity * RESIZE_THRESHOLD)
\*                 resize(RESIZE_FACTOR * capacity)
CheckSize(t) ==
    /\ pc[t] = "check"
    /\ IF NeedsResize(operands[t].new_size, capacity)
       THEN Goto(t, "resize", [operands[t] EXCEPT !.new_capacity = RESIZE_FACTOR * capacity])
       ELSE Goto(t, "hash", operands[t])
    /\ UNCHANGED <<array, keys, capacity, size, shadow>>

\* resize: T* old_keys = keys;
ResizeReadKeys(t) ==
    /\ pc[t] = "resize"
    /\ Goto(t, "alloc", [operands[t] EXCEPT !.old_keys = keys])
    /\ UNCHANGED <<array, keys, capacity, size, shadow>>

\* resize: keys = (T*) alloc_keys(new_capacity, sizeof(T));
ResizeAlloc(t) ==
    /\ pc[t] = "alloc"
    /\ array' = Append(array, [cells |-> set_all_empty(operands[t].new_capacity), freed |-> FALSE])
    /\ keys' = Len(array) + 1
    /\ Goto(t, "old_capacity", operands[t])
    /\ UNCHANGED <<capacity, size, shadow>>

\* resize: unsigned int old_capacity = capacity;
ResizeReadCapacity(t) ==
    /\ pc[t] = "old_capacity"
    /\ Goto(t, "capacity", [operands[t] EXCEPT !.old_capacity = capacity])
    /\ UNCHANGED <<array, keys, capacity, size, shadow>>

\* resize: capacity = new_capacity;
ResizeWriteCapacity(t) ==
    /\ pc[t] = "capacity"
    /\ capacity' = operands[t].new_capacity
    /\ Goto(t, "rehash", [operands[t] EXCEPT !.i = 0])
    /\ UNCHANGED <<array, keys, size, shadow>>

\* resize: for (i = 0; i < old_capacity; i++) if (!is_empty(old_keys[i])) ...
ResizeReadOld(t) ==
    /\ pc[t] = "rehash"
    /\ LET l == operands[t]
       IN  IF l.i >= l.old_capacity THEN Goto(t, "free", l)
           ELSE IF ~Valid(l.old_keys, l.i) THEN Goto(t, "fault", l)
           ELSE IF is_empty(array[l.old_keys].cells[l.i])
           THEN Goto(t, "rehash", [l EXCEPT !.i = @ + 1])
           ELSE Goto(t, "next_empty", [l EXCEPT !.item = array[l.old_keys].cells[l.i]])
    /\ UNCHANGED <<array, keys, capacity, size, shadow>>

\* next_empty: unsigned int index = hash(element) % capacity;
NextEmptyHash(t) ==
    /\ pc[t] = "next_empty"
    /\ Goto(t, "next_empty_probe", [operands[t] EXCEPT !.index = hash(operands[t].item) % capacity])
    /\ UNCHANGED <<array, keys, capacity, size, shadow>>

\* next_empty: while (!is_empty(keys[index])) index = (index + 1) % capacity;
NextEmptyProbe(t) ==
    /\ pc[t] = "next_empty_probe"
    /\ LET l == operands[t]
       IN  IF ~Valid(keys, l.index) THEN Goto(t, "fault", l)
           ELSE IF ~is_empty(array[keys].cells[l.index])
           THEN Goto(t, "next_empty_probe", [l EXCEPT !.index = (@ + 1) % capacity])
           ELSE Goto(t, "move", l)
    /\ UNCHANGED <<array, keys, capacity, size, shadow>>

\* resize: core::move(old_keys[i], keys[next_empty(old_keys[i])]);
ResizeMove(t) ==
    /\ pc[t] = "move"
    /\ LET l == operands[t]
       IN  IF ~Valid(keys, l.index)
           THEN Goto(t, "fault", l) /\ UNCHANGED array
           ELSE /\ array' = [array EXCEPT ![keys].cells[l.index] = l.item]
                /\ Goto(t, "rehash", [l EXCEPT !.i = @ + 1])
    /\ UNCHANGED <<keys, capacity, size, shadow>>

\* resize: ::free(old_keys); return true;  (freeing a freed buffer is a fault)
ResizeFree(t) ==
    /\ pc[t] = "free"
    /\ LET l == operands[t]
       IN  IF array[l.old_keys].freed
           THEN Goto(t, "fault", l) /\ UNCHANGED array
           ELSE /\ array' = [array EXCEPT ![l.old_keys].freed = TRUE]
                /\ Goto(t, "check", [l EXCEPT !.resized = TRUE])
    /\ UNCHANGED <<keys, capacity, size, shadow>>

\* index_to_insert: unsigned int index = hash(element) % capacity;
InsertHash(t) ==
    /\ pc[t] = "hash"
    /\ Goto(t, "probe", [operands[t] EXCEPT !.index = hash(operands[t].element) % capacity])
    /\ UNCHANGED <<array, keys, capacity, size, shadow>>

\* index_to_insert: the tests of keys[index] in the loop
InsertProbe(t) ==
    /\ pc[t] = "probe"
    /\ LET l == operands[t]
       IN  IF ~Valid(keys, l.index) THEN Goto(t, "fault", l)
           ELSE IF is_empty(array[keys].cells[l.index]) THEN Goto(t, "size", l)
           ELSE IF array[keys].cells[l.index] = l.element THEN Goto(t, "place", l)
           ELSE Goto(t, "probe", [l EXCEPT !.index = (@ + 1) % capacity])
    /\ UNCHANGED <<array, keys, capacity, size, shadow>>

\* index_to_insert: size++ is a read of size ...
InsertReadSize(t) ==
    /\ pc[t] = "size"
    /\ Goto(t, "size_write", [operands[t] EXCEPT !.new_size = size])
    /\ UNCHANGED <<array, keys, capacity, size, shadow>>

\* ... and a write of the value read plus one
InsertWriteSize(t) ==
    /\ pc[t] = "size_write"
    /\ size' = operands[t].new_size + 1
    /\ Goto(t, "place", operands[t])
    /\ UNCHANGED <<array, keys, capacity, shadow>>

\* place: keys[index] = element; add returns true and the caller unlocks
Place(t) ==
    /\ pc[t] = "place"
    /\ LET l == operands[t]
       IN  IF ~Valid(keys, l.index)
           THEN Goto(t, "fault", l) /\ UNCHANGED array
           ELSE /\ array' = [array EXCEPT ![keys].cells[l.index] = l.element]
                /\ Goto(t, "done", [l EXCEPT !.ret = TRUE])
    /\ shadow' = [shadow EXCEPT !.owner = 0]
    /\ UNCHANGED <<keys, capacity, size>>

NextRace ==
    \E t \in Threads :
        \/ AddReadSize(t) \/ CheckSize(t)
        \/ ResizeReadKeys(t) \/ ResizeAlloc(t) \/ ResizeReadCapacity(t)
        \/ ResizeWriteCapacity(t) \/ ResizeReadOld(t) \/ NextEmptyHash(t)
        \/ NextEmptyProbe(t) \/ ResizeMove(t) \/ ResizeFree(t)
        \/ InsertHash(t) \/ InsertProbe(t) \/ InsertReadSize(t) \/ InsertWriteSize(t)
        \/ Place(t)

SpecRace == InitRace /\ [][NextRace]_allvars

\* the table the field keys points to, when capacity describes it
TableCells == array[keys].cells
TableIsWhole == ~array[keys].freed /\ DOMAIN TableCells = 0..(capacity - 1)
\* an add that returned true and whose key contains does not find
LostAdd(t) ==
    operands[t].ret /\ (TableIsWhole => ~contains(TableCells, capacity, operands[t].element))
SizeIsOccupied ==
    TableIsWhole /\ size = Cardinality({i \in DOMAIN TableCells : ~is_empty(TableCells[i])})

\* no call of add is in progress
Quiescent == \A t \in Threads : pc[t] \in {"start", "done"}

\* C22: with the two calls of add serialized (the callers lock around add),
\* no call faults and no state between the calls is reachable in which an
\* add that returned true is lost or size differs from the number of
\* occupied slots; without the lock such a state is reachable (C22_Witness).
C22_SerializedAddsAreSafe ==
    (kind = "race" /\ shadow.locking) =>
        /\ \A t \in Threads : pc[t] # "fault"
        /\ Quiescent => SizeIsOccupied /\ \A t \in Threads : ~LostAdd(t)

\* without locking: the two calls added different keys and both returned
\* true, one of them resized, and one of the keys is not found
C22_Witness ==
    /\ kind = "race" /\ ~shadow.locking
    /\ \A t \in Threads : pc[t] = "done" /\ operands[t].ret
    /\ operands[1].element # operands[2].element
    /\ \E t \in Threads : operands[t].resized
    /\ \E t \in Threads : LostAdd(t)

\* ------------------------------------------------------------- C23
\* the half-open cyclic interval (start, end] of the buckets of a table
CyclicInterval(start, end, cap) == {(start + d) % cap : d \in 1..((end - start + cap) % cap)}

\* C23: backward-shift deletion leaves no tombstone and moves keys only
\* backward along their own probe path: after a successful remove(k) exactly
\* one slot that was occupied is empty and no other slot changed between
\* empty and occupied; every surviving key is at its old index or at an index
\* on the cyclic path from its home bucket (inclusive) to its old index
\* (exclusive); a key whose home lies in the cyclic interval (last, search]
\* (last the hole it would move to, search its index) is not moved.
C23_BackwardShift ==
    [][(last'.op = "remove" /\ last'.ret) =>
          /\ capacity' = capacity
          /\ Cardinality({i \in Occupied(keys) : is_empty(keys'[i])}) = 1
          /\ Occupied(keys') \subseteq Occupied(keys)
          /\ \A s \in Occupied(keys) : \A d \in SlotsOf(keys', keys[s]) :
                \/ d = s
                \/ /\ d \in PathBefore(Home(keys[s], capacity), s, capacity)
                   /\ Home(keys[s], capacity) \notin CyclicInterval(d, s, capacity)]_vars

\* a remove has just left its hole inside what was one cluster: the bucket
\* after the hole still holds a key in its home bucket and the bucket
\* before it is occupied
C23_Witness ==
    /\ last.op = "remove" /\ last.ret
    /\ \E p, q \in Occupied(keys) :
          /\ q = (p + 2) % capacity
          /\ Home(keys[q], capacity) = q
          /\ is_empty(keys[(p + 1) % capacity])
    /\ size >= 2

\* ------------------------------------------------------------- C24
\* index_between is applied to every probe, start and end of a table of
\* capacity 1..MaxIntervalCapacity; operands holds the arguments and the result
MaxIntervalCapacity == 5

InitInterval ==
    /\ kind = "interval"
    /\ capacity \in 1..MaxIntervalCapacity
    /\ operands \in [probe : 0..(capacity - 1), start : 0..(capacity - 1),
                     end : 0..(capacity - 1), op : {"none"}, ret : {FALSE}]
    /\ array = <<>> /\ hasher = <<>> /\ keys = <<>> /\ values = <<>> /\ size = 0
    /\ shadow = <<>> /\ last = NoCall /\ pc = 0

IndexBetween ==
    /\ kind = "interval" /\ operands.op = "none"
    /\ operands' = [operands EXCEPT !.op = "index_between",
                       !.ret = index_between(operands.probe, operands.start, operands.end)]
    /\ UNCHANGED <<vars, array>>

SpecInterval == InitInterval /\ [][IndexBetween]_allvars

\* C24: index_between(probe, start, end) is the membership test of the
\* half-open cyclic interval (start, end]: for every capacity C and all probe,
\* start, end in 0..C-1 it returns true exactly when probe is one of start+1,
\* start+2, ..., end taken modulo C, and for start = end it returns false.
C24_IndexBetween ==
    (kind = "interval" /\ operands.op = "index_between") =>
        /\ operands.ret <=> operands.probe \in CyclicInterval(operands.start, operands.end, capacity)
        /\ operands.start = operands.end => ~operands.ret

\* index_between has answered true for a probe before `end` in an interval
\* that wraps around the end of the table
C24_Witness ==
    /\ kind = "interval" /\ operands.op = "index_between"
    /\ operands.end < operands.start
    /\ operands.probe < operands.end
    /\ operands.ret

\* ------------------------------------------------------------- C25
NoDuplicateKeys(ks) == \A i, j \in Occupied(ks) : ks[i] = ks[j] => i = j

\* C25: key uniqueness: in every state reachable through add, add_all, put,
\* put_all, remove, clear and automatic resize no non-sentinel key is stored
\* in two different slots; so a resize, which relocates with next_empty
\* instead of find-or-insert, creates and merges no entry: every key stored
\* before a call that resized is in exactly one slot afterwards, and the
\* slots occupied afterwards are those keys' and the ones of the keys the
\* call inserted.
C25_KeyUniqueness ==
    /\ []NoDuplicateKeys(keys)
    /\ [][capacity' > capacity =>
             /\ \A k \in StoredKeys(keys) : Cardinality(SlotsOf(keys', k)) = 1
             /\ Cardinality(Occupied(keys')) =
                   Cardinality(Occupied(keys)) + Cardinality(StoredKeys(keys') \ StoredKeys(keys))]_vars

\* a call has just doubled the capacity of a table holding two colliding
\* keys and inserted a third
C25_Witness ==
    /\ last.op \in {"add", "put"} /\ last.ret /\ ~last.hit
    /\ last.freed # <<>>
    /\ size >= 3
    /\ Displaced(keys, capacity)

\* ------------------------------------------------------------- C26
\* the first slot of the cluster (maximal run of occupied slots) that holds
\* slot `index`: the slot after the nearest empty slot before it
RECURSIVE ClusterFirst(_, _, _, _)
ClusterFirst(ks, cap, index, steps) ==
    LET before == (index + cap - 1) % cap
    IN  IF steps >= cap \/ is_empty(ks[before]) THEN index
        ELSE ClusterFirst(ks, cap, before, steps + 1)

\* the number of slots of the cluster that starts at slot `first`
RECURSIVE ClusterLength(_, _, _, _)
ClusterLength(ks, cap, first, n) ==
    IF n >= cap \/ is_empty(ks[(first + n) % cap]) THEN n
    ELSE ClusterLength(ks, cap, first, n + 1)

\* the keys met when scanning n slots forward from `first`, empty slots skipped
ClusterScan(ks, cap, first, n) ==
    SelectSeq([d \in 1..n |-> ks[(first + d - 1) % cap]], LAMBDA k : ~is_empty(k))

Among(scan, among) == SelectSeq(scan, LAMBDA k : k \in among)

\* the slots whose key a remove step took out of the table
RemovedSlots == {i \in Occupied(keys) : ~Stored(keys', keys[i])}

\* the scans of the affected cluster before and after a remove step, the
\* removed key left out, and the keys that moved
RemovalScans ==
    LET removed == CHOOSE i \in RemovedSlots : TRUE
        first == ClusterFirst(keys, capacity, removed, 0)
        n == ClusterLength(keys, capacity, first, 0)
        survivors == {keys[i] : i \in Occupied(keys) \ {removed}}
    IN  [before |-> Among(ClusterScan(keys, capacity, first, n), survivors),
         after |-> ClusterScan(keys', capacity, first, n),
         moved |-> {k \in survivors : SlotsOf(keys', k) # SlotsOf(keys, k)}]

\* C26: hash-table removal is order-preserving: for every remove, the order
\* in which the surviving keys of the affected cluster are met when scanning
\* buckets cyclically forward from the cluster's first slot is the same after
\* the removal as before it.
C26_RemovalPreservesOrder ==
    [][(last'.op = "remove" /\ last'.ret) =>
          /\ Cardinality(RemovedSlots) = 1
          /\ \A scans \in {RemovalScans} : scans.after = scans.before]_vars

\* what holds: the survivors of the cluster stay within its slots; the keys
\* that are moved keep their order among themselves, and so do the keys that
\* share a home bucket; a moved key may pass keys that stay.
C26_RemovalPreservesOrderWithinHome ==
    [][(last'.op = "remove" /\ last'.ret) =>
          /\ Cardinality(RemovedSlots) = 1
          /\ \A scans \in {RemovalScans} :
                /\ Len(scans.after) = Len(scans.before)
                /\ Among(scans.after, scans.moved) = Among(scans.before, scans.moved)
                /\ \A h \in {Home(k, capacity) : k \in DOMAIN hasher \ {EMPTY}} :
                      \A home \in {{k \in DOMAIN hasher \ {EMPTY} : Home(k, capacity) = h}} :
                         Among(scans.after, home) = Among(scans.before, home)]_vars

\* a remove has just left two keys in adjacent home buckets, the greater key
\* first
C26_Witness ==
    /\ last.op = "remove" /\ last.ret
    /\ \E p, q \in Occupied(keys) :
          /\ q = (p + 1) % capacity
          /\ Home(keys[p], capacity) = p /\ Home(keys[q], capacity) = q
          /\ keys[p] < keys[q] /\ hash(keys[p]) = 0 /\ hash(keys[q]) = 1
          /\ p = 0

\* ------------------------------------------------------------- C27
\* a probe that starts at bucket `index` and runs until an empty bucket meets
\* one within `capacity` steps (the loops of next_empty and of remove_at)
MeetsEmpty(index) == ProbeEmpty(keys, capacity, index, 0) < capacity

\* C27: every probe loop terminates: in every state reachable from a table
\* created with capacity >= 1 through add, add_all, put, put_all, remove and
\* clear, size <= capacity/2 (integer division) < capacity, so at least one
\* slot is empty and each call of contains, index_of, get, index_to_insert,
\* next_empty, remove and remove_at finishes after at most capacity probe
\* steps.
C27_ProbesTerminate ==
    /\ capacity >= 1
    /\ size <= capacity \div 2 /\ capacity \div 2 < capacity
    /\ \E i \in DOMAIN keys : is_empty(keys[i])
    /\ \A k \in KeySet \cup {EMPTY} :
          /\ next_empty(keys, capacity, k) < capacity
          /\ index_of(keys, capacity, k).index < capacity
          /\ ProbeInsert(keys, capacity, k, hash(k) % capacity, 0).index < capacity
    /\ \A i \in Occupied(keys) : MeetsEmpty((i + 1) % capacity)

\* a table as full as it gets, size = capacity/2, whose cluster wraps around
\* the end of the buffer
C27_Witness ==
    /\ 2 * size = capacity /\ size >= 2
    /\ \E p \in Occupied(keys) : Home(keys[p], capacity) > p
    /\ ~is_empty(keys[capacity - 1]) /\ ~is_empty(keys[0])

\* ------------------------------------------------------------- C28
\* add_all / put_all take up to MaxBulkCount elements (add_all's array may
\* repeat a key; put_all's argument is a map, its keys are distinct, and its
\* values here are MaxVal, MaxVal - 1, ... in the order of its buckets)
MaxBulkCount == 2
BulkKeyArrays == UNION {[1..n -> Keys] : n \in 0..MaxBulkCount}
BulkPairArrays ==
    {[i \in DOMAIN e |-> <<e[i], MaxVal - ((i - 1) % MaxVal)>>] :
        e \in {f \in BulkKeyArrays : \A i, j \in DOMAIN f : f[i] = f[j] => i = j}}

InitBulk == Init /\ kind \in {"set", "map"}

\* allocator behaviours of a bulk call: a resize of a set allocates once, a
\* resize of a map twice, and the failures looked at are those of the first
\* two resizes of the call
BulkFails(new_size) ==
    IF NeedsResize(new_size, capacity)
    THEN 0..(IF kind = "set" THEN 2 ELSE MaxFail)
    ELSE {0}

\* single insertions (their allocations succeed) and removals build the
\* tables the bulk calls are made on
NextBulk ==
    \/ \E element \in Keys : Add(element, 0)
    \/ \E key \in Keys, value \in Vals : Put(key, value, 0)
    \/ \E elements \in BulkKeyArrays : \E fail \in BulkFails(size + Len(elements)) :
          AddAll(elements, fail)
    \/ \E element \in Keys : Remove(element)
    \/ \E elements \in BulkPairArrays : \E fail \in BulkFails(size + Len(elements)) :
          PutAll(elements, fail)
    \/ \E key \in Keys : MapRemove(key)

SpecBulk == InitBulk /\ [][NextBulk]_vars

\* the keys a table holds, with their values if it is a map
Contents(ks, vs, cap) ==
    [k \in StoredKeys(ks) |-> IF kind = "map" THEN hash_map_get(ks, vs, cap, k).value ELSE 1]
\* the keys the model says are present (shadow: what the calls that
\* returned true have added and not removed), with their values
ShadowContents(sh) == [k \in {j \in DOMAIN sh : sh[j] # 0} |-> sh[k]]

ArrayMapPairs(ks, vs, sz) == {<<ks[i], vs[i]>> : i \in 0..(sz - 1)}

\* C30: array_map::remove(k) returns true in every case: when k is present
\* its pair is removed (size decreases by one, the other pairs stay), and
\* when k is absent the call still returns true and leaves keys, values,
\* size and capacity unchanged.
C30_ArrayMapRemove ==
    [][last'.op = "remove" =>
          /\ last'.ret
          /\ last'.hit =>
                /\ size' = size - 1 /\ capacity' = capacity
                /\ ArrayMapPairs(keys', values', size') =
                      {p \in ArrayMapPairs(keys, values, size) : p[1] # operands'.key}
          /\ ~last'.hit => UNCHANGED <<keys, values, size, capacity>>]_allvars

\* remove of a key that an array_map of two pairs does not hold has just
\* returned true
C30_Witness ==
    /\ kind = "array_map"
    /\ last.op = "remove" /\ ~last.hit /\ last.ret
    /\ size >= 2
    /\ \A i \in 0..(size - 1) : keys[i] # operands.key

====
